---------------------------- MODULE Spec2Model ----------------------------
(***************************************************************************)
(* Spatial proximity / enrichment engine of ark.utils.spatial_analysis_utils *)
(* (src/ark/utils/spatial_analysis_utils.py).                               *)
(*                                                                         *)
(* Python values are represented as follows.                               *)
(*   None            <<>>, and a present optional value x is <<x>>         *)
(*   pandas.Series   a sequence (row order = the shared pandas index)      *)
(*   DataFrame       [columns |-> <<names>>, rows |-> <<records>>]         *)
(*   xarray (2-D)    [coords |-> <<labels>>, values |-> [<<r,c>> |-> v]]   *)
(*   exception       the string "Type: message" in variable raised         *)
(* Python positions are 0-based; sequences here are 1-based, so Python's   *)
(* index j is j+1 below.                                                   *)
(***************************************************************************)
EXTENDS Integers, Sequences, FiniteSets, TLC

VARIABLES
    pc,       \* position of the running call: "idle", a step name, "done", "raised"
    op,       \* name of the function being executed ("" when idle)
    args,     \* the arguments of the running call
    frame,    \* the local variables of the running call
    ret,      \* the returned value (None until the call returns)
    raised,   \* the exception that ended the call ("" if none)
    fs,       \* the file system: the set of paths that exist
    npz,      \* the archives written by np.savez: [path, data] records
    np_random,\* the state of numpy's global generator np.random
    runs,     \* the sampler runs completed so far, in order
    workers   \* the sampler calls running in parallel worker threads

vars == <<pc, op, args, frame, ret, raised, fs, npz, np_random, runs, workers>>

\* The state outside the running call that only the file-writing and the
\* sampling functions touch.
env == <<npz, np_random, runs, workers>>

-----------------------------------------------------------------------------
(* Bounds of the model. *)

\* Object labels of a FOV are drawn from 1..MaxLabel.
MaxLabel == 3

\* Distances are kept in fixed point, in units of 1/DistRes pixel.
DistRes == 10

\* The global generator has RngMod internal states.
RngMod == 16

\* Positive-set sizes handed to the samplers are drawn from 0..MaxPositive.
MaxPositive == 2

\* Bootstrap counts are drawn from 0..MaxBootstrap.
MaxBootstrap == 2

\* Observed and null close counts handed to the statistics are drawn from
\* 0..MaxCount.
MaxCount == 2

\* The number of bootstrap samples in test_calculate_enrichment_stats.
TestBootstrap == 100

-----------------------------------------------------------------------------
(* Python-level helpers. *)

None == <<>>

Some(x) == <<x>>

IsNone(x) == x = <<>>

Val(x) == x[1]

Labels == 1..MaxLabel

\* The ascending sequence of the elements of a finite set of integers.
RECURSIVE SortedSeq(_)
SortedSeq(S) ==
    IF S = {} THEN <<>>
    ELSE LET m == CHOOSE x \in S : \A y \in S : x <= y
         IN  <<m>> \o SortedSeq(S \ {m})

\* Position of label l in a coordinate sequence, 0 when absent.
IndexOf(coords, l) ==
    IF \E i \in 1..Len(coords) : coords[i] = l
    THEN CHOOSE i \in 1..Len(coords) : coords[i] = l
    ELSE 0

\* series[mask]: the entries of a Series at the rows where the boolean mask
\* (aligned on the same index) is True, in row order.
RECURSIVE MaskSelect(_, _)
MaskSelect(series, mask) ==
    IF series = <<>> THEN <<>>
    ELSE IF Head(mask)
         THEN <<Head(series)>> \o MaskSelect(Tail(series), Tail(mask))
         ELSE MaskSelect(Tail(series), Tail(mask))

\* df[name]: the column called name, as a Series.
Column(df, name) == [r \in 1..Len(df.rows) |-> df.rows[r][name]]

\* df.iloc[:, i]: the column at 0-based position i, whatever its name.
IlocColumn(df, i) == Column(df, df.columns[i + 1])


\* The outcome of a function body: a returned value or a raised exception.
Ok(v) == [raised |-> "", val |-> v]

Raise(e) == [raised |-> e, val |-> None]

-----------------------------------------------------------------------------
(* PositivitySelector: get_pos_cell_labels and its two variants. *)

ErrAnalysisType == "ValueError: Incorrect analysis type"

ErrArguments == "ValueError: Incorrect arguments passed for analysis type"

\* Variant: no analysis type is rejected.
AcceptAnyType(analysis_type) == TRUE

\* np.isin(analysis_type, ("cluster", "channel")).all()
ValidAnalysisType(analysis_type) == analysis_type \in {"cluster", "channel"}

\* get_pos_cell_labels_cluster: the second column of the rows whose
\* FlowSOM_ID is pheno.
get_pos_cell_labels_cluster(pheno, current_fov_neighborhood_data) ==
    IF IsNone(pheno) \/ IsNone(current_fov_neighborhood_data)
    THEN Raise(ErrArguments)
    ELSE LET df == Val(current_fov_neighborhood_data)
             ids == Column(df, "FlowSOM_ID")
             pheno1posinds == [r \in 1..Len(ids) |-> ids[r] = Val(pheno)]
         IN  Ok(MaskSelect(IlocColumn(df, 1), pheno1posinds))

\* Variant: the comparison with the threshold is not strict.
GetPosChannelAtLeast(thresh, current_fov_channel_data, cell_labels, current_marker) ==
    IF \/ IsNone(thresh)
       \/ IsNone(current_fov_channel_data)
       \/ IsNone(cell_labels)
       \/ IsNone(current_marker)
    THEN Raise(ErrArguments)
    ELSE LET expr == Column(Val(current_fov_channel_data), Val(current_marker))
             marker1posinds == [r \in 1..Len(expr) |-> expr[r] >= Val(thresh)]
         IN  Ok(MaskSelect(Val(cell_labels), marker1posinds))

\* get_pos_cell_labels_channel: the labels of the objects whose expression of
\* current_marker is greater than thresh.
get_pos_cell_labels_channel(thresh, current_fov_channel_data, cell_labels, current_marker) ==
    IF \/ IsNone(thresh)
       \/ IsNone(current_fov_channel_data)
       \/ IsNone(cell_labels)
       \/ IsNone(current_marker)
    THEN Raise(ErrArguments)
    ELSE LET expr == Column(Val(current_fov_channel_data), Val(current_marker))
             marker1posinds == [r \in 1..Len(expr) |-> expr[r] > Val(thresh)]
         IN  Ok(MaskSelect(Val(cell_labels), marker1posinds))

\* get_pos_cell_labels: the selection of either mode, after the check of
\* the analysis type.
get_pos_cell_labels(analysis_type, pheno, current_fov_neighborhood_data, thresh, current_fov_channel_data, cell_labels, current_marker) ==
    IF ~ValidAnalysisType(analysis_type)
    THEN Raise(ErrAnalysisType)
    ELSE IF analysis_type = "cluster"
    THEN IF IsNone(pheno) \/ IsNone(current_fov_neighborhood_data)
         THEN Raise(ErrArguments)
         ELSE LET df == Val(current_fov_neighborhood_data)
                  ids == Column(df, "FlowSOM_ID")
                  pheno1posinds == [r \in 1..Len(ids) |-> ids[r] = Val(pheno)]
              IN  Ok(MaskSelect(IlocColumn(df, 1), pheno1posinds))
    ELSE IF \/ IsNone(thresh)
            \/ IsNone(current_fov_channel_data)
            \/ IsNone(cell_labels)
            \/ IsNone(current_marker)
         THEN Raise(ErrArguments)
         ELSE LET expr == Column(Val(current_fov_channel_data),
                                 Val(current_marker))
                  marker1posinds ==
                      [r \in 1..Len(expr) |-> expr[r] > Val(thresh)]
              IN  Ok(MaskSelect(Val(cell_labels), marker1posinds))

-----------------------------------------------------------------------------
(* ProximityCounter: compute_close_cell_num, one action per step.  *)

\* Variant: a distance equal to the threshold counts as close.
BinarizeAtMost(dist_mat, dist_lim) ==
    [coords |-> dist_mat.coords,
     values |-> [p \in DOMAIN dist_mat.values |->
                    IF dist_mat.values[p] <= dist_lim THEN 1 ELSE 0]]

\* Variant: an object is not close to itself.
BinarizeNoSelf(dist_mat, dist_lim) ==
    [coords |-> dist_mat.coords,
     values |-> [p \in DOMAIN dist_mat.values |->
                    IF dist_mat.values[p] < dist_lim /\ p[1] # p[2]
                    THEN 1 ELSE 0]]

\* (dist_mat.values < dist_lim).astype(np.int8), with dist_mat's coords
Binarize(dist_mat, dist_lim) ==
    [coords |-> dist_mat.coords,
     values |-> [p \in DOMAIN dist_mat.values |->
                    IF dist_mat.values[p] < dist_lim THEN 1 ELSE 0]]

\* Variant: the labels are used as array positions.
LocByPosition(xarr, a, b) ==
    IF <<a, b>> \in DOMAIN xarr.values THEN xarr.values[<<a, b>>] ELSE 0

\* xarr.loc[a, b]: the entry addressed by the coordinate labels a and b.
Loc(xarr, a, b) ==
    xarr.values[<<IndexOf(xarr.coords, a), IndexOf(xarr.coords, b)>>]

\* Sum of the row labelled a of a binarized matrix over the column labels.
RECURSIVE RowSum(_, _, _)
RowSum(bin, a, cols) ==
    IF cols = <<>> THEN 0
    ELSE Loc(bin, a, Head(cols)) + RowSum(bin, a, Tail(cols))

RECURSIVE BlockSum(_, _, _)
BlockSum(bin, rows, cols) ==
    IF rows = <<>> THEN 0
    ELSE RowSum(bin, Head(rows), cols) + BlockSum(bin, Tail(rows), cols)

\* np.sum(dist_mat_bin.loc[rows, cols].values): label-based selection, which
\* raises KeyError when a requested label is not a coordinate.
LocSum(bin, rows, cols) ==
    IF \E i \in 1..Len(rows) : IndexOf(bin.coords, rows[i]) = 0
    THEN Raise("KeyError")
    ELSE IF \E i \in 1..Len(cols) : IndexOf(bin.coords, cols[i]) = 0
    THEN Raise("KeyError")
    ELSE Ok(BlockSum(bin, rows, cols))

\* dict(zip(keys, values)): insertion-ordered <<key, value>> pairs; a repeated
\* key keeps its first position and takes the last value.
RECURSIVE DictZip(_, _)
DictZip(keys, values) ==
    IF keys = <<>> \/ values = <<>> THEN <<>>
    ELSE LET n == IF Len(keys) < Len(values) THEN Len(keys) ELSE Len(values)
             init == DictZip(SubSeq(keys, 1, n - 1), SubSeq(values, 1, n - 1))
             hit == {i \in 1..Len(init) : init[i][1] = keys[n]}
         IN  IF hit = {}
             THEN Append(init, <<keys[n], values[n]>>)
             ELSE [i \in 1..Len(init) |->
                      IF i \in hit THEN <<keys[n], values[n]>> ELSE init[i]]

\* The locals of compute_close_cell_num before its first statement.
EmptyFrame ==
    [cell_labels |-> <<>>, close_num |-> <<>>, mark1_num |-> <<>>,
     mark1poslabels |-> <<>>, mark1_num_per_id |-> None,
     dist_mat_bin |-> None, j |-> 0, k |-> 0]

\* lines 180-182: the analysis type is checked first.
CloseValidate ==
    /\ op = "compute_close_cell_num" /\ pc = "validate"
    /\ IF ~ValidAnalysisType(args.analysis_type)
       THEN /\ raised' = ErrAnalysisType
            /\ pc' = "raised"
       ELSE /\ raised' = raised
            /\ pc' = "setup"
    /\ UNCHANGED <<op, args, frame, ret, fs, env>>

\* Variant: the distance matrix is binarized in place.
CloseSetupInPlace ==
    /\ op = "compute_close_cell_num" /\ pc = "setup"
    /\ frame' = [frame EXCEPT !.cell_labels = IF args.analysis_type = "channel" THEN Column(Val(args.current_fov_data), "cellLabelInImage") ELSE <<>>,
                               !.close_num = [p \in (1..args.num) \X (1..args.num) |-> 0],
                               !.mark1_num = <<>>,
                               !.mark1poslabels = <<>>,
                               !.dist_mat_bin = Some([coords |-> args.dist_mat.coords, values |-> [p \in DOMAIN args.dist_mat.values |-> IF args.dist_mat.values[p] < args.dist_lim THEN 1 ELSE 0]]),
                               !.j = 1]
    /\ args' = [args EXCEPT !.dist_mat = Val(frame'.dist_mat_bin)]
    /\ pc' = "select"
    /\ UNCHANGED <<op, raised, ret, fs, env>>

\* lines 184-205: cell label column, zeroed close_num, binarized matrix.
CloseSetup ==
    /\ op = "compute_close_cell_num" /\ pc = "setup"
    /\ IF args.analysis_type = "channel" /\ IsNone(args.current_fov_data)
       THEN /\ raised' = "TypeError: 'NoneType' object is not subscriptable"
            /\ pc' = "raised"
            /\ frame' = frame
       ELSE /\ frame' =
                 [frame EXCEPT
                    !.cell_labels =
                        IF args.analysis_type = "channel"
                        THEN Column(Val(args.current_fov_data),
                                    "cellLabelInImage")
                        ELSE <<>>,
                    !.close_num =
                        [p \in (1..args.num) \X (1..args.num) |-> 0],
                    !.mark1_num = <<>>,
                    !.mark1poslabels = <<>>,
                    !.dist_mat_bin =
                        Some(Binarize(args.dist_mat, args.dist_lim)),
                    !.j = 1]
            /\ raised' = raised
            /\ pc' = "select"
    /\ UNCHANGED <<op, args, ret, fs, env>>

\* Variant: the entries are taken from the end.
IlocFromEnd(series, j) == series[Len(series) + 1 - j]

\* series.iloc[j]: the entry at position j (1-based here).
Iloc(series, j) == series[j]

\* The positive labels of marker/cluster j (lines 208-215), with the errors
\* Python raises while it evaluates the call's arguments.
SelectPositive(a, cell_labels, j) ==
    IF a.analysis_type = "cluster"
    THEN IF IsNone(a.cluster_ids)
         THEN Raise("AttributeError: 'NoneType' object has no attribute 'iloc'")
         ELSE IF j > Len(Val(a.cluster_ids))
         THEN Raise("IndexError: single positional indexer is out-of-bounds")
         ELSE get_pos_cell_labels_cluster(Some(Iloc(Val(a.cluster_ids), j)),
                                          a.current_fov_data)
    ELSE IF IsNone(a.thresh_vec)
         THEN Raise("AttributeError: 'NoneType' object has no attribute 'iloc'")
         ELSE IF j > Len(Val(a.thresh_vec))
         THEN Raise("IndexError: single positional indexer is out-of-bounds")
         ELSE IF IsNone(a.current_fov_channel_data)
         THEN Raise("AttributeError: 'NoneType' object has no attribute 'columns'")
         ELSE IF j > Len(Val(a.current_fov_channel_data).columns)
         THEN Raise("IndexError: index out of bounds")
         ELSE get_pos_cell_labels_channel(
                  Some(Iloc(Val(a.thresh_vec), j)),
                  a.current_fov_channel_data,
                  Some(cell_labels),
                  Some(Val(a.current_fov_channel_data).columns[j]))

\* lines 207-216: one iteration of the selection loop.
CloseSelect ==
    /\ op = "compute_close_cell_num" /\ pc = "select"
    /\ frame.j <= args.num
    /\ LET r == SelectPositive(args, frame.cell_labels, frame.j)
       IN  IF r.raised # ""
           THEN /\ raised' = r.raised
                /\ pc' = "raised"
                /\ frame' = frame
           ELSE /\ frame' =
                     [frame EXCEPT
                        !.mark1poslabels = Append(@, r.val),
                        !.mark1_num = Append(@, Len(r.val)),
                        !.j = @ + 1]
                /\ raised' = raised
                /\ pc' = pc
    /\ UNCHANGED <<op, args, ret, fs, env>>

\* lines 221-223: the per-id sizes, in cluster mode only.
ClosePerId ==
    /\ op = "compute_close_cell_num" /\ pc = "select"
    /\ frame.j > args.num
    /\ IF args.analysis_type = "cluster" /\ IsNone(args.cluster_ids)
       THEN /\ raised' = "TypeError: zip argument #1 must support iteration"
            /\ pc' = "raised"
            /\ frame' = frame
       ELSE /\ frame' =
                 [frame EXCEPT
                    !.mark1_num_per_id =
                        IF args.analysis_type = "cluster"
                        THEN Some(DictZip(Val(args.cluster_ids),
                                          frame.mark1_num))
                        ELSE None,
                    !.j = 1,
                    !.k = 1]
            /\ raised' = raised
            /\ pc' = "count"
    /\ UNCHANGED <<op, args, ret, fs, env>>

\* Variant: the count is not mirrored.
WriteCountUpper(close_num, j, k, count) ==
    [close_num EXCEPT ![<<j, k>>] = count]

\* lines 234-236: the count is written at [j, k] and mirrored to [k, j].
WriteCount(close_num, j, k, count) ==
    [[close_num EXCEPT ![<<j, k>>] = count] EXCEPT ![<<k, j>>] = count]

\* lines 226-236: one iteration (j, k), k >= j, of the counting loops.
CloseCount ==
    /\ op = "compute_close_cell_num" /\ pc = "count"
    /\ frame.j <= Len(frame.mark1_num)
    /\ LET j == frame.j
           k == frame.k
           n == Len(frame.mark1_num)
           r == LocSum(Val(frame.dist_mat_bin),
                       frame.mark1poslabels[j], frame.mark1poslabels[k])
       IN  IF r.raised # ""
           THEN /\ raised' = r.raised
                /\ pc' = "raised"
                /\ frame' = frame
           ELSE /\ frame' =
                     [frame EXCEPT
                        !.close_num = WriteCount(@, j, k, r.val),
                        !.j = IF k < n THEN j ELSE j + 1,
                        !.k = IF k < n THEN k + 1 ELSE j + 1]
                /\ raised' = raised
                /\ pc' = pc
    /\ UNCHANGED <<op, args, ret, fs, env>>

\* line 238
CloseReturn ==
    /\ op = "compute_close_cell_num" /\ pc = "count"
    /\ frame.j > Len(frame.mark1_num)
    /\ ret' = Some(<<frame.close_num, frame.mark1_num,
                     frame.mark1_num_per_id>>)
    /\ pc' = "done"
    /\ UNCHANGED <<op, args, frame, raised, fs, env>>


-----------------------------------------------------------------------------
(* DistanceMatrixBuilder: calc_dist_matrix, one action per step.           *)
(* A label map of one FOV is [h |-> H, w |-> W, px |-> [<<r, c>> |-> l]]   *)
(* with 0-based pixel coordinates; label_maps is the sequence of           *)
(* <<fov id, label map>> along the fovs coordinate.                        *)

\* floor(sqrt(n)) by bisection on lo..hi
RECURSIVE ISqrtIn(_, _, _)
ISqrtIn(n, lo, hi) ==
    IF lo >= hi THEN lo
    ELSE LET mid == (lo + hi + 1) \div 2
         IN  IF mid * mid <= n
             THEN ISqrtIn(n, mid, hi)
             ELSE ISqrtIn(n, lo, mid - 1)

ISqrt(n) == ISqrtIn(n, 0, n)

RECURSIVE SumOver(_, _)
SumOver(S, f) ==
    IF S = {} THEN 0
    ELSE LET x == CHOOSE y \in S : TRUE
         IN  f[x] + SumOver(S \ {x}, f)

\* Variant: the regions are numbered 1, 2, ... in place of their labels.
RegionPropsRenumbered(image) ==
    LET present == {image.px[p] : p \in DOMAIN image.px} \ {0}
        region(l) == {p \in DOMAIN image.px : image.px[p] = l}
        order == SortedSeq(present)
    IN  [i \in 1..Len(order) |->
            [label |-> i,
             sum_r |-> SumOver(region(order[i]),
                               [p \in region(order[i]) |-> p[1]]),
             sum_c |-> SumOver(region(order[i]),
                               [p \in region(order[i]) |-> p[2]]),
             area |-> Cardinality(region(order[i]))]]

\* skimage.measure.regionprops(image): one region per positive label present
\* in the image, in ascending label order.  The centroid (mean pixel
\* coordinate) is kept exactly as the coordinate sums and the pixel count.
RegionProps(image) ==
    LET present == {image.px[p] : p \in DOMAIN image.px} \ {0}
        region(l) == {p \in DOMAIN image.px : image.px[p] = l}
        prop(l) ==
            [label |-> l,
             sum_r |-> SumOver(region(l), [p \in region(l) |-> p[1]]),
             sum_c |-> SumOver(region(l), [p \in region(l) |-> p[2]]),
             area |-> Cardinality(region(l))]
        order == SortedSeq(present)
    IN  [i \in 1..Len(order) |-> prop(order[i])]

\* Variant: the coordinate differences are added without being squared.
SignedDifference(u, v) ==
    LET dr == u.sum_r * v.area - v.sum_r * u.area
        dc == u.sum_c * v.area - v.sum_c * u.area
        den == u.area * v.area
    IN  (DistRes * (dr + dc)) \div den

\* Variant: the city-block distance |ur - vr| + |uc - vc|.
CityBlock(u, v) ==
    LET dr == u.sum_r * v.area - v.sum_r * u.area
        dc == u.sum_c * v.area - v.sum_c * u.area
        den == u.area * v.area
        abs(x) == IF x < 0 THEN -x ELSE x
    IN  (DistRes * (abs(dr) + abs(dc))) \div den

\* One entry of cdist(centroids, centroids): the Euclidean distance
\* sqrt((ur - vr)^2 + (uc - vc)^2) between two centroids, in fixed point.
Euclidean(u, v) ==
    LET dr == u.sum_r * v.area - v.sum_r * u.area
        dc == u.sum_c * v.area - v.sum_c * u.area
        den == u.area * v.area
    IN  ISqrt((DistRes * DistRes * (dr * dr + dc * dc)) \div (den * den))

\* lines 39-45: the distance matrix of one FOV, with the region labels as
\* coordinates.  cdist rejects an empty list of centroids.
FovDistMatrix(image) ==
    LET props == RegionProps(image)
        n == Len(props)
    IN  IF n = 0
        THEN Raise("ValueError: XA must be a 2-dimensional array.")
        ELSE Ok([coords |-> [i \in 1..n |-> props[i].label],
                 values |-> [p \in (1..n) \X (1..n) |->
                                Euclidean(props[p[1]], props[p[2]])]])

\* os.path.exists(path): a trailing separator does not matter.
PathExists(files, path) ==
    \/ path \in files
    \/ \E d \in files : path = d \o "/"

\* lines 26-30: a save path, if given, must exist.
CalcValidate ==
    /\ op = "calc_dist_matrix" /\ pc = "validate"
    /\ IF ~IsNone(args.path) /\ ~PathExists(fs, Val(args.path))
       THEN /\ raised' = "FileNotFoundError: File path not valid"
            /\ pc' = "raised"
            /\ frame' = frame
       ELSE /\ raised' = raised
            /\ pc' = "fovs"
            /\ frame' = [dist_mats_list |-> <<>>, i |-> 1]
    /\ UNCHANGED <<op, args, ret, fs, env>>

\* lines 37-48: one iteration of the loop over the FOVs.
CalcFov ==
    /\ op = "calc_dist_matrix" /\ pc = "fovs"
    /\ frame.i <= Len(args.label_maps)
    /\ LET r == FovDistMatrix(args.label_maps[frame.i][2])
       IN  IF r.raised # ""
           THEN /\ raised' = r.raised
                /\ pc' = "raised"
                /\ frame' = frame
           ELSE /\ frame' = [frame EXCEPT
                                !.dist_mats_list = Append(@, r.val),
                                !.i = @ + 1]
                /\ raised' = raised
                /\ pc' = pc
    /\ UNCHANGED <<op, args, ret, fs, env>>

\* lines 50-58: the dictionary fov -> matrix is returned, or saved under
\* path + "dist_matrices.npz" (and nothing is returned).
CalcFinish ==
    /\ op = "calc_dist_matrix" /\ pc = "fovs"
    /\ frame.i > Len(args.label_maps)
    /\ LET dist_matrices ==
               DictZip([i \in 1..Len(args.label_maps) |->
                           args.label_maps[i][1]],
                       frame.dist_mats_list)
       IN  IF IsNone(args.path)
           THEN /\ ret' = Some(dist_matrices)
                /\ fs' = fs
                /\ npz' = npz
           ELSE /\ ret' = None
                /\ fs' = fs \cup {Val(args.path) \o "dist_matrices.npz"}
                /\ npz' = npz \cup
                             {[path |-> Val(args.path) \o "dist_matrices.npz",
                               data |-> dist_matrices]}
    /\ pc' = "done"
    /\ UNCHANGED <<op, args, frame, raised, np_random, runs, workers>>


-----------------------------------------------------------------------------
(* The inputs the calls are made with. *)

\* A FOV whose objects are single pixels on one image row, with gaps of
\* 1, 2, 3, ... pixels between successive labels so that all pairwise
\* distances differ; the labels run from left to right ("asc") or from
\* right to left ("desc").
LinePos(order, l) ==
    LET i == IF order = "asc" THEN l ELSE MaxLabel + 1 - l
    IN  (i * (i - 1)) \div 2

LineImage(S, order) ==
    [h |-> 1, w |-> LinePos("asc", MaxLabel) + 1,
     px |-> [p \in {0} \X (0..LinePos("asc", MaxLabel)) |->
                IF \E l \in S : LinePos(order, l) = p[2]
                THEN CHOOSE l \in S : LinePos(order, l) = p[2]
                ELSE 0]]

\* The label sets of the FOVs: all labels, labels that do not start at 1,
\* and labels with a gap.
CoordSets == {Labels, Labels \ {1}, Labels \ {2}}

\* The distance matrices handed to the proximity counter are those that
\* calc_dist_matrix builds for these FOVs.
DistMats ==
    {FovDistMatrix(LineImage(S, order)).val :
        S \in CoordSets, order \in {"asc", "desc"}}

\* Thresholds of 0, 1, 2 and 4 pixels: nothing is close; every object is
\* close to itself only, labels 1 and 2 being exactly at the threshold;
\* labels 1 and 2 are close, labels 2 and 3 being exactly at the threshold;
\* the labels up to 3 are all close.
DistLims == {0, DistRes, 2 * DistRes, 4 * DistRes}

ClusterVals == {1, 2}

LabelFirstLayout == <<"cellLabelInImage", "FlowSOM_ID", "SampleID">>

LabelSecondLayout == <<"SampleID", "cellLabelInImage", "FlowSOM_ID">>

LabelThirdLayout == <<"FlowSOM_ID", "SampleID", "cellLabelInImage">>

\* The object metadata of a FOV: one row per label of S, in ascending label
\* order, with cluster id f[l].
FovTable(layout, S, f) ==
    LET c == SortedSeq(S)
    IN  [columns |-> layout,
         rows |-> [r \in 1..Len(c) |->
                      [SampleID |-> 1, cellLabelInImage |-> c[r],
                       FlowSOM_ID |-> f[c[r]]]]]

\* The marker columns of the same rows: expression e[l] = <<m1, m2>>.
ChannelTable(S, e) ==
    LET c == SortedSeq(S)
    IN  [columns |-> <<"m1", "m2">>,
         rows |-> [r \in 1..Len(c) |-> [m1 |-> e[c[r]][1], m2 |-> e[c[r]][2]]]]

ClusterIdLists == {<<1, 2>>, <<2, 1>>}

ThreshVecs == {<<1, 1>>, <<2, 1>>}

CloseArgs(type, d, l, n, data, chan, ids, th) ==
    [analysis_type |-> type, dist_mat |-> d, dist_lim |-> l, num |-> n,
     current_fov_data |-> data, current_fov_channel_data |-> chan,
     cluster_ids |-> ids, thresh_vec |-> th]

\* Cluster-mode calls for the objects S: every assignment of cluster ids,
\* the cluster id list in both orders.  The object metadata has the layout
\* of the cell tables of this repository, whose second column holds the
\* labels.
ClusterCalls(d, l, S) ==
    {CloseArgs("cluster", d, l, Len(ids),
               Some(FovTable(LabelSecondLayout, S, f)), None, Some(ids), None) :
        f \in [S -> ClusterVals], ids \in ClusterIdLists}

\* Channel-mode calls for the objects S: every expression of two markers at
\* or above a threshold of 1, the object metadata in every layout.
ChannelCalls(d, l, S) ==
    {CloseArgs("channel", d, l, Len(th),
               Some(FovTable(layout, S, [x \in S |-> 1])),
               Some(ChannelTable(S, e)), None, Some(th)) :
        e \in [S -> {1, 2} \X {1, 2}], th \in ThreshVecs,
        layout \in {LabelFirstLayout, LabelSecondLayout, LabelThirdLayout}}

\* The calls from which the ill-formed ones are derived.
IsFullCall(c) ==
    /\ Len(Val(c.current_fov_data).rows) = MaxLabel
    /\ c.dist_lim = 2 * DistRes

\* Calls that leave out a mode-specific input, or whose threshold vector
\* does not have one entry per marker.
MissingArgVariants(c) ==
    IF ~IsFullCall(c) THEN {}
    ELSE IF c.analysis_type = "cluster"
    THEN {[c EXCEPT !.cluster_ids = None],
          [c EXCEPT !.current_fov_data = None],
          [c EXCEPT !.cluster_ids = None, !.num = 0]}
    ELSE {[c EXCEPT !.thresh_vec = None],
          [c EXCEPT !.current_fov_channel_data = None],
          [c EXCEPT !.current_fov_data = None],
          [c EXCEPT !.thresh_vec = Some(<<1>>)],
          [c EXCEPT !.thresh_vec = Some(<<1, 1, 1>>)]}

BadTypeVariants(c) ==
    IF ~IsFullCall(c) THEN {}
    ELSE {[x EXCEPT !.analysis_type = "bad_type"] :
             x \in {c} \cup MissingArgVariants(c)}

CloseCalls(d, l, S) ==
    UNION {{c} \cup MissingArgVariants(c) \cup BadTypeVariants(c) :
           c \in ClusterCalls(d, l, S) \cup ChannelCalls(d, l, S)}

\* Calls of the selectors: expression <<m1, m2>> of an object is below, at
\* or above a threshold of 1.
PosArgs(type, pheno, data, th, chan, labels, marker) ==
    [analysis_type |-> type, pheno |-> pheno,
     current_fov_neighborhood_data |-> data, thresh |-> th,
     current_fov_channel_data |-> chan, cell_labels |-> labels,
     current_marker |-> marker]

PosChannelCalls(S) ==
    {PosArgs("channel", None, None, Some(th), Some(ChannelTable(S, e)),
             Some(SortedSeq(S)), Some(m)) :
        th \in {0, 1}, m \in {"m1", "m2"},
        e \in [S -> {<<0, 2>>, <<1, 1>>, <<2, 0>>}]}

PosClusterCalls(S) ==
    {PosArgs("cluster", Some(ph), Some(FovTable(layout, S, f)),
             None, None, None, None) :
        ph \in ClusterVals, f \in [S -> ClusterVals],
        layout \in {LabelFirstLayout, LabelSecondLayout, LabelThirdLayout}}

PosMissingArgVariants(c, S) ==
    IF S # Labels THEN {}
    ELSE IF c.analysis_type = "channel"
    THEN {[c EXCEPT !.thresh = None],
          [c EXCEPT !.current_fov_channel_data = None],
          [c EXCEPT !.cell_labels = None],
          [c EXCEPT !.current_marker = None]}
    ELSE {[c EXCEPT !.pheno = None],
          [c EXCEPT !.current_fov_neighborhood_data = None]}

PosCalls(S) ==
    UNION {{c} \cup PosMissingArgVariants(c, S) :
           c \in PosChannelCalls(S) \cup PosClusterCalls(S)}

PosBadTypeCalls(S) ==
    {[c EXCEPT !.analysis_type = "bad_type"] : c \in PosCalls(S)}

-----------------------------------------------------------------------------
(* The specification of the selectors and of compute_close_cell_num. *)

Init ==
    /\ pc = "idle"
    /\ op = ""
    /\ args = <<>>
    /\ frame = <<>>
    /\ ret = None
    /\ raised = ""
    /\ fs = {"data_dir"}
    /\ npz = {}
    /\ np_random = [seed |-> None, state |-> 0]
    /\ runs = <<>>
    /\ workers = <<>>

\* A selector call runs to its end in one step.
Finish(name, c, r) ==
    /\ op' = name
    /\ args' = c
    /\ raised' = r.raised
    /\ ret' = IF r.raised = "" THEN Some(r.val) ELSE None
    /\ pc' = IF r.raised = "" THEN "done" ELSE "raised"
    /\ UNCHANGED <<frame, fs, env>>

CallPosChannel ==
    /\ pc = "idle"
    /\ \E S \in SUBSET Labels :
       \E c \in {x \in PosCalls(S) : x.analysis_type = "channel"} :
          Finish("get_pos_cell_labels_channel", c,
                 get_pos_cell_labels_channel(
                     c.thresh, c.current_fov_channel_data, c.cell_labels,
                     c.current_marker))

CallPosCluster ==
    /\ pc = "idle"
    /\ \E S \in SUBSET Labels :
       \E c \in {x \in PosCalls(S) : x.analysis_type = "cluster"} :
          Finish("get_pos_cell_labels_cluster", c,
                 get_pos_cell_labels_cluster(
                     c.pheno, c.current_fov_neighborhood_data))

CallPos ==
    /\ pc = "idle"
    /\ \E S \in SUBSET Labels :
       \E c \in PosCalls(S) \cup PosBadTypeCalls(S) :
          Finish("get_pos_cell_labels", c,
                 get_pos_cell_labels(
                     c.analysis_type, c.pheno,
                     c.current_fov_neighborhood_data, c.thresh,
                     c.current_fov_channel_data, c.cell_labels,
                     c.current_marker))

CallClose ==
    /\ pc = "idle"
    /\ \E d \in DistMats, l \in DistLims, S \in SUBSET Labels :
          \E c \in CloseCalls(d, l, S) : args' = c
    /\ op' = "compute_close_cell_num"
    /\ pc' = "validate"
    /\ frame' = EmptyFrame
    /\ UNCHANGED <<ret, raised, fs, env>>

Next ==
    \/ CallPosChannel
    \/ CallPosCluster
    \/ CallPos
    \/ CallClose
    \/ CloseValidate
    \/ CloseSetup
    \/ CloseSelect
    \/ ClosePerId
    \/ CloseCount
    \/ CloseReturn

Spec == Init /\ [][Next]_vars


-----------------------------------------------------------------------------
(* The specification of calc_dist_matrix. *)

\* All label maps of 2 x 2 pixels over the labels 0..MaxLabel.
GridImages ==
    {[h |-> 2, w |-> 2, px |-> f] :
        f \in [(0..1) \X (0..1) -> 0..MaxLabel]}

EmptyImage == [h |-> 2, w |-> 2, px |-> [p \in (0..1) \X (0..1) |-> 0]]

\* Three single-pixel objects whose centroids form a 3-4-5 right triangle
\* with the right angle at label 3, translated by t = <<rows, columns>>; the
\* legs lie along the columns and the rows ("a") or the other way round.
TriangleShift == 1

TrianglePixels(orient, t) ==
    IF orient = "a"
    THEN [l \in 1..3 |-> <<t[1] + <<0, 4, 0>>[l], t[2] + <<3, 0, 0>>[l]>>]
    ELSE [l \in 1..3 |-> <<t[1] + <<3, 0, 0>>[l], t[2] + <<0, 4, 0>>[l]>>]

TriangleImage(orient, t) ==
    LET at == TrianglePixels(orient, t)
    IN  [h |-> 5 + TriangleShift, w |-> 5 + TriangleShift,
         px |-> [p \in (0..(4 + TriangleShift)) \X (0..(4 + TriangleShift)) |->
                    IF \E l \in 1..3 : at[l] = p
                    THEN CHOOSE l \in 1..3 : at[l] = p
                    ELSE 0]]

TriangleImages ==
    {TriangleImage(o, t) :
        o \in {"a", "b"}, t \in (0..TriangleShift) \X (0..TriangleShift)}

SavePaths == {None, Some("bad_path"), Some("data_dir"), Some("data_dir/")}

CalcCalls ==
    {[label_maps |-> << <<"fov1", g>> >>, path |-> None] : g \in GridImages}
    \cup
    {[label_maps |-> << <<"fov1", g>>, <<"fov2", LineImage(S, "asc")>> >>,
      path |-> q] :
        g \in {EmptyImage, LineImage(Labels, "desc")},
        S \in CoordSets \cup {{}}, q \in SavePaths}
    \cup
    {[label_maps |-> << <<"fov1", g1>>, <<"fov2", g2>> >>, path |-> None] :
        g1 \in TriangleImages, g2 \in TriangleImages}

CallCalcDist ==
    /\ pc = "idle"
    /\ \E c \in CalcCalls : args' = c
    /\ op' = "calc_dist_matrix"
    /\ pc' = "validate"
    /\ UNCHANGED <<frame, ret, raised, fs, env>>

NextDist ==
    \/ CallCalcDist
    \/ CalcValidate
    \/ CalcFov
    \/ CalcFinish

SpecDist == Init /\ [][NextDist]_vars


-----------------------------------------------------------------------------
(* NullDistributionSampler: compute_close_cell_num_random.                 *)
(* np.random is numpy's process-wide generator.  It is a deterministic     *)
(* generator: np_random.state is its internal state, every draw advances   *)
(* it, and np_random.seed is the value last given to np.random.seed (None  *)
(* while the state still is the one taken from the operating system).      *)
(* A 3-D array is [shape |-> <<M, M, B>>, values |-> [<<j, k, b>> |-> v]]. *)

\* One step of the generator.
Advance(g) == [g EXCEPT !.state = (5 * @ + 3) % RngMod]

\* The integer in 0..(n - 1) that the generator yields in state g.
Output(g, n) == (g.state * n) \div RngMod

\* np.random.choice(a, size, True) for a 1-D array a: size entries of a at
\* positions drawn one after the other, and the generator afterwards.
RECURSIVE Choice(_, _, _)
Choice(g, a, size) ==
    IF size = 0 THEN [raised |-> "", val |-> <<>>, rng |-> g]
    ELSE IF Len(a) = 0
    THEN [raised |-> "ValueError: 'a' cannot be empty unless no samples are taken",
          val |-> <<>>, rng |-> g]
    ELSE LET g1 == Advance(g)
             rest == Choice(g1, a, size - 1)
         IN  [raised |-> "",
              val |-> <<a[Output(g1, Len(a)) + 1]>> \o rest.val,
              rng |-> rest.rng]

\* xarr.values.flatten(): the entries in row-major order.
Flatten(xarr) ==
    LET n == Len(xarr.coords)
    IN  [i \in 1..(n * n) |->
            xarr.values[<<((i - 1) \div n) + 1, ((i - 1) % n) + 1>>]]

\* np.sum(samples, axis=0) for samples of shape (rows, cols) kept in
\* row-major order: the column sums.
RECURSIVE ColumnSum(_, _, _, _)
ColumnSum(samples, rows, cols, b) ==
    IF rows = 0 THEN 0
    ELSE samples[(rows - 1) * cols + b] + ColumnSum(samples, rows - 1, cols, b)

SumAxis0(samples, rows, cols) ==
    [b \in 1..cols |-> ColumnSum(samples, rows, cols, b)]

\* Variant: as many values are drawn as there are objects in the two sets.
SamplesDimSum(m1n, m2n, bootstrap_num) == <<m1n + m2n, bootstrap_num>>

\* line 271
SamplesDim(m1n, m2n, bootstrap_num) == <<m1n * m2n, bootstrap_num>>

\* Variant: the draws are not mirrored.
WriteRandUpper(close_num_rand, j, k, hits) ==
    [close_num_rand EXCEPT
        !.values = [p \in DOMAIN @ |->
                       IF <<p[1], p[2]>> = <<j, k>> THEN hits[p[3]] ELSE @[p]]]

\* lines 278-280: the sums are written at [j, k, :] and mirrored to
\* [k, j, :].
WriteRand(close_num_rand, j, k, hits) ==
    [close_num_rand EXCEPT
        !.values = [p \in DOMAIN @ |->
                       IF <<p[1], p[2]>> \in {<<j, k>>, <<k, j>>}
                       THEN hits[p[3]] ELSE @[p]]]

\* lines 260-267: the zeroed tensor and the binarized matrix.
RandSetupFrame(a) ==
    LET m == Len(a.marker_nums)
    IN  [close_num_rand |->
             [shape |-> <<m, m, a.bootstrap_num>>,
              values |-> [p \in (1..m) \X (1..m) \X (1..a.bootstrap_num)
                             |-> 0]],
         dist_mat_bin |-> Binarize(a.dist_mat, a.dist_lim),
         j |-> 1, k |-> 1]

\* lines 269-280: one iteration (j, k), k >= j, of the loops, run on the
\* locals fr with the generator in state g.
RandPairStep(a, fr, g) ==
    LET j == fr.j
        k == fr.k
        n == Len(a.marker_nums)
        samples_dim == SamplesDim(a.marker_nums[j], a.marker_nums[k],
                                  a.bootstrap_num)
        dist_mat_bin_flattened == Flatten(fr.dist_mat_bin)
        c == Choice(g, dist_mat_bin_flattened,
                    samples_dim[1] * samples_dim[2])
    IN  IF c.raised # ""
        THEN [raised |-> c.raised, frame |-> fr, rng |-> c.rng]
        ELSE [raised |-> "",
              frame |->
                  [fr EXCEPT
                     !.close_num_rand =
                         WriteRand(@, j, k,
                                   SumAxis0(c.val, samples_dim[1],
                                            samples_dim[2])),
                     !.j = IF k < n THEN j ELSE j + 1,
                     !.k = IF k < n THEN k + 1 ELSE j + 1],
              rng |-> c.rng]

RandSetup ==
    /\ op = "compute_close_cell_num_random" /\ pc = "setup"
    /\ frame' = RandSetupFrame(args)
    /\ pc' = "pairs"
    /\ UNCHANGED <<op, args, ret, raised, fs, env>>

RandPair ==
    /\ op = "compute_close_cell_num_random" /\ pc = "pairs"
    /\ frame.j <= Len(args.marker_nums)
    /\ LET r == RandPairStep(args, frame, np_random)
       IN  /\ frame' = r.frame
           /\ np_random' = r.rng
           /\ raised' = r.raised
           /\ pc' = IF r.raised # "" THEN "raised" ELSE pc
    /\ UNCHANGED <<op, args, ret, fs, npz, runs, workers>>

\* line 282; the completed run is appended to the log of runs.
RandReturn ==
    /\ op = "compute_close_cell_num_random" /\ pc = "pairs"
    /\ frame.j > Len(args.marker_nums)
    /\ ret' = Some(frame.close_num_rand)
    /\ runs' = Append(runs, [args |-> args, seed |-> np_random.seed,
                             result |-> frame.close_num_rand])
    /\ pc' = "done"
    /\ UNCHANGED <<op, args, frame, raised, fs, npz, np_random, workers>>

\* The lists of positive-set sizes: none, one or two sets.
MarkerNums ==
    {<<>>} \cup {<<x>> : x \in 0..MaxPositive}
           \cup {<<x, y>> : x, y \in 0..MaxPositive}

RandCalls(d, l) ==
    {[marker_nums |-> mn, dist_mat |-> d, dist_lim |-> l,
      bootstrap_num |-> b] :
        mn \in MarkerNums, b \in 0..MaxBootstrap}

\* The generator of a process that was not seeded starts in any state.
InitRand ==
    /\ pc = "idle"
    /\ op = ""
    /\ args = <<>>
    /\ frame = <<>>
    /\ ret = None
    /\ raised = ""
    /\ fs = {"data_dir"}
    /\ npz = {}
    /\ np_random \in {[seed |-> None, state |-> x] : x \in 0..(RngMod - 1)}
    /\ runs = <<>>
    /\ workers = <<>>

CallRand ==
    /\ pc = "idle"
    /\ \E d \in DistMats, l \in DistLims :
          \E c \in RandCalls(d, l) : args' = c
    /\ op' = "compute_close_cell_num_random"
    /\ pc' = "setup"
    /\ UNCHANGED <<frame, ret, raised, fs, env>>

NextRand ==
    \/ CallRand
    \/ RandSetup
    \/ RandPair
    \/ RandReturn

SpecRand == InitRand /\ [][NextRand]_vars


-----------------------------------------------------------------------------
(* The legacy sampler helper_function_closenumrand of                      *)
(* src/segmentation/utils/spatialorgmarkerexpression_utils.py.  Its        *)
(* dist_mat is a plain 2-D array addressed by position.                    *)

\* series.sample(n=n, replace=True): n entries of the series at row
\* positions drawn from np.random, which pandas uses when no random_state
\* is given.
Sample(g, series, n) == Choice(g, series, n)

\* np.sum(np.sum(bin)) of dist_mat[np.ix_(rows - 1, cols - 1)] binarized
\* with < dist_lim.  A position outside the array raises IndexError; when
\* one of the two index lists is empty nothing is read and the sum is 0.
\* A label l is the 0-based position l - 1, the 1-based position l here;
\* a label drawn twice is read twice.
RECURSIVE IxSum(_, _, _, _)
IxSum(dist_mat, rows, cols, dist_lim) ==
    IF rows = <<>> \/ cols = <<>> THEN 0
    ELSE LET first ==
                 Cardinality({c \in 1..Len(cols) :
                     dist_mat.values[<<Head(rows), cols[c]>>] < dist_lim})
         IN  first + IxSum(dist_mat, Tail(rows), cols, dist_lim)

TruncSum(dist_mat, labels1, labels2, dist_lim) ==
    LET n == Len(dist_mat.coords)
    IN  IF labels1 = <<>> \/ labels2 = <<>> THEN Ok(0)
        ELSE IF \/ \E i \in 1..Len(labels1) : labels1[i] > n
                \/ \E i \in 1..Len(labels2) : labels2[i] > n
        THEN Raise("IndexError: index out of bounds")
        ELSE Ok(IxSum(dist_mat, labels1, labels2, dist_lim))

\* lines 106-110
LegacySetupFrame(a) ==
    [close_num_rand |->
         [shape |-> <<a.marker_num, a.marker_num, a.bootstrap_num>>,
          values |-> [p \in (1..a.marker_num) \X (1..a.marker_num)
                              \X (1..a.bootstrap_num) |-> 0]],
     j |-> 1, k |-> 1, r |-> 1]

\* lines 114-131: one iteration (j, k, r) of the loops, run on the locals
\* fr with the generator in state g.
LegacyDrawStep(a, fr, g) ==
    LET cell_label_idx == 1
        labels == IlocColumn(a.patient_data, cell_label_idx)
        marker1labelsrand == Sample(g, labels, a.marker1_num[fr.j])
        marker2labelsrand ==
            Sample(marker1labelsrand.rng, labels, a.marker2_num[fr.k])
        hits == TruncSum(a.dist_mat, marker1labelsrand.val,
                         marker2labelsrand.val, a.dist_lim)
        lastr == fr.r >= a.bootstrap_num
        lastk == fr.k >= a.marker_num
    IN  IF marker1labelsrand.raised # ""
        THEN [raised |-> marker1labelsrand.raised, frame |-> fr,
              rng |-> marker1labelsrand.rng]
        ELSE IF marker2labelsrand.raised # ""
        THEN [raised |-> marker2labelsrand.raised, frame |-> fr,
              rng |-> marker2labelsrand.rng]
        ELSE IF hits.raised # ""
        THEN [raised |-> hits.raised, frame |-> fr,
              rng |-> marker2labelsrand.rng]
        ELSE [raised |-> "",
              frame |->
                  [fr EXCEPT
                     !.close_num_rand.values[<<fr.j, fr.k, fr.r>>] = hits.val,
                     !.r = IF lastr THEN 1 ELSE fr.r + 1,
                     !.k = IF ~lastr THEN fr.k
                           ELSE IF lastk THEN 1 ELSE fr.k + 1,
                     !.j = IF lastr /\ lastk THEN fr.j + 1 ELSE fr.j],
              rng |-> marker2labelsrand.rng]

LegacySetup ==
    /\ op = "helper_function_closenumrand" /\ pc = "setup"
    /\ frame' = LegacySetupFrame(args)
    /\ pc' = "draws"
    /\ UNCHANGED <<op, args, ret, raised, fs, env>>

LegacyDraw ==
    /\ op = "helper_function_closenumrand" /\ pc = "draws"
    /\ frame.j <= args.marker_num
    /\ args.bootstrap_num > 0
    /\ LET x == LegacyDrawStep(args, frame, np_random)
       IN  /\ frame' = x.frame
           /\ np_random' = x.rng
           /\ raised' = x.raised
           /\ pc' = IF x.raised # "" THEN "raised" ELSE pc
    /\ UNCHANGED <<op, args, ret, fs, npz, runs, workers>>

\* line 132
LegacyReturn ==
    /\ op = "helper_function_closenumrand" /\ pc = "draws"
    /\ frame.j > args.marker_num \/ args.bootstrap_num = 0
    /\ ret' = Some(frame.close_num_rand)
    /\ pc' = "done"
    /\ UNCHANGED <<op, args, frame, raised, fs, env>>

\* The calls: the positive-set sizes of one or two markers as
\* helper_function_closenum returns them (marker2_num holds the sizes once
\* per marker), and the object table of the FOV of the distance matrix.
RECURSIVE Repeat(_, _)
Repeat(q, n) == IF n = 0 THEN <<>> ELSE q \o Repeat(q, n - 1)

LegacyCalls(d, l) ==
    {[marker1_num |-> mn, marker2_num |-> Repeat(mn, Len(mn)),
      patient_data |->
          FovTable(LabelSecondLayout, {d.coords[i] : i \in 1..Len(d.coords)},
                   [x \in Labels |-> 1]),
      dist_mat |-> d, marker_num |-> Len(mn), dist_lim |-> l,
      bootstrap_num |-> b] :
        mn \in MarkerNums \ {<<>>}, b \in 0..MaxBootstrap}

CallLegacy ==
    /\ pc = "idle"
    /\ \E d \in DistMats, l \in DistLims :
          \E c \in LegacyCalls(d, l) : args' = c
    /\ op' = "helper_function_closenumrand"
    /\ pc' = "setup"
    /\ UNCHANGED <<frame, ret, raised, fs, env>>

NextLegacy ==
    \/ CallLegacy
    \/ LegacySetup
    \/ LegacyDraw
    \/ LegacyReturn

SpecLegacy == InitRand /\ [][NextLegacy]_vars


-----------------------------------------------------------------------------
(* Repeated runs of compute_close_cell_num_random in one process, next to  *)
(* the other users of np.random: the synthetic data generator seeds the    *)
(* global generator and draws from it                                      *)
(* (src/segmentation/utils/synthetic_spatial_datagen.py).                  *)

SeedVals == {1, 2}

\* np.random.seed(seed): the state becomes a function of the seed.
SeedGlobal ==
    /\ pc = "idle"
    /\ \E seed \in SeedVals :
          np_random' = [seed |-> Some(seed), state |-> seed % RngMod]
    /\ UNCHANGED <<pc, op, args, frame, ret, raised, fs, npz, runs, workers>>

\* Any other draw from np.random, between two calls of the sampler.
OtherDraw ==
    /\ pc = "idle"
    /\ np_random' = Advance(np_random)
    /\ UNCHANGED <<pc, op, args, frame, ret, raised, fs, npz, runs, workers>>

\* The calls that are run twice: all objects of a FOV, a threshold under
\* which some pairs are close and some are not.
RerunCalls ==
    {[marker_nums |-> mn,
      dist_mat |-> FovDistMatrix(LineImage(Labels, "asc")).val,
      dist_lim |-> 2 * DistRes, bootstrap_num |-> MaxBootstrap] :
        mn \in {<<1, MaxPositive>>, <<MaxPositive, MaxPositive>>}}

CallRandRerun ==
    /\ pc = "idle"
    /\ \E c \in RerunCalls : args' = c
    /\ op' = "compute_close_cell_num_random"
    /\ pc' = "setup"
    /\ UNCHANGED <<frame, ret, raised, fs, env>>

\* The caller takes the result and goes on; at most two runs are logged.
NextRun ==
    /\ pc = "done" /\ Len(runs) < 2
    /\ pc' = "idle"
    /\ op' = ""
    /\ args' = <<>>
    /\ frame' = <<>>
    /\ ret' = None
    /\ UNCHANGED <<raised, fs, env>>

NextSeed ==
    \/ SeedGlobal
    \/ OtherDraw
    \/ CallRandRerun
    \/ RandSetup
    \/ RandPair
    \/ RandReturn
    \/ NextRun

SpecSeed == InitRand /\ [][NextSeed]_vars


-----------------------------------------------------------------------------
(* compute_close_cell_num_random run for two FOVs in two worker threads of *)
(* one process.  Each worker has its own arguments and locals; np.random   *)
(* is the one generator of the process.  A call of np.random.choice is     *)
(* atomic (the generator is locked while it draws), so the workers         *)
(* interleave between the iterations of their loops.                       *)

WorkerIds == {1, 2}

\* The workers are started, one per FOV; start is the state of the
\* generator at that moment.
StartWorkers ==
    /\ pc = "idle"
    /\ \E c1 \in RerunCalls, c2 \in RerunCalls :
          workers' = [w \in WorkerIds |->
                         [pc |-> "setup",
                          args |-> IF w = 1 THEN c1 ELSE c2,
                          frame |-> <<>>, ret |-> None,
                          start |-> np_random]]
    /\ pc' = "parallel"
    /\ op' = "compute_close_cell_num_random"
    /\ UNCHANGED <<args, frame, ret, raised, fs, npz, np_random, runs>>

WorkerSetup(w) ==
    /\ pc = "parallel" /\ workers[w].pc = "setup"
    /\ workers' = [workers EXCEPT
                      ![w].frame = RandSetupFrame(workers[w].args),
                      ![w].pc = "pairs"]
    /\ UNCHANGED <<pc, op, args, frame, ret, raised, fs, npz, np_random, runs>>

WorkerPair(w) ==
    /\ pc = "parallel" /\ workers[w].pc = "pairs"
    /\ workers[w].frame.j <= Len(workers[w].args.marker_nums)
    /\ LET r == RandPairStep(workers[w].args, workers[w].frame, np_random)
       IN  /\ workers' = [workers EXCEPT
                             ![w].frame = r.frame,
                             ![w].pc = IF r.raised # "" THEN "raised" ELSE @]
           /\ np_random' = r.rng
    /\ UNCHANGED <<pc, op, args, frame, ret, raised, fs, npz, runs>>

WorkerReturn(w) ==
    /\ pc = "parallel" /\ workers[w].pc = "pairs"
    /\ workers[w].frame.j > Len(workers[w].args.marker_nums)
    /\ workers' = [workers EXCEPT
                      ![w].ret = Some(workers[w].frame.close_num_rand),
                      ![w].pc = "done"]
    /\ UNCHANGED <<pc, op, args, frame, ret, raised, fs, npz, np_random, runs>>

\* The results of the workers are collected.
CollectWorkers ==
    /\ pc = "parallel"
    /\ \A w \in WorkerIds : workers[w].pc = "done"
    /\ ret' = Some([w \in WorkerIds |-> Val(workers[w].ret)])
    /\ pc' = "done"
    /\ UNCHANGED <<op, args, frame, raised, fs, env>>

NextPar ==
    \/ StartWorkers
    \/ \E w \in WorkerIds : WorkerSetup(w)
    \/ \E w \in WorkerIds : WorkerPair(w)
    \/ \E w \in WorkerIds : WorkerReturn(w)
    \/ CollectWorkers

SpecPar == InitRand /\ [][NextPar]_vars


-----------------------------------------------------------------------------
(* Recomputation: a caller computes the close counts of a FOV and, once    *)
(* the call has returned, calls compute_close_cell_num again with the same *)
(* argument objects.  runs keeps what the caller handed to the first call  *)
(* and what that call returned.                                            *)

CallCloseFirst ==
    /\ pc = "idle"
    /\ \E d \in DistMats, l \in DistLims, S \in SUBSET Labels :
          \E c \in ClusterCalls(d, l, S) \cup ChannelCalls(d, l, S) :
             /\ args' = c
             /\ runs' = <<[args |-> c, result |-> None]>>
    /\ op' = "compute_close_cell_num"
    /\ pc' = "validate"
    /\ frame' = EmptyFrame
    /\ UNCHANGED <<ret, raised, fs, npz, np_random, workers>>

CallCloseAgain ==
    /\ pc = "done"
    /\ op = "compute_close_cell_num"
    /\ IsNone(runs[1].result)
    /\ runs' = <<[runs[1] EXCEPT !.result = ret]>>
    /\ ret' = None
    /\ pc' = "validate"
    /\ frame' = EmptyFrame
    /\ UNCHANGED <<op, args, raised, fs, npz, np_random, workers>>

NextAgain ==
    \/ CallCloseFirst
    \/ CloseValidate
    \/ CloseSetup
    \/ CloseSelect
    \/ ClosePerId
    \/ CloseCount
    \/ CloseReturn
    \/ CallCloseAgain

SpecAgain == Init /\ [][NextAgain]_vars

-----------------------------------------------------------------------------
(* The legacy counter helper_function_closenum, called by a caller that    *)
(* has just computed the close counts of the same FOV with the primary     *)
(* compute_close_cell_num in channel mode.  The legacy function gets the   *)
(* values of the distance matrix and addresses them by position.           *)

\* Variant: an expression equal to the threshold counts as positive.
LegacyPositiveAtLeast(a, j) ==
    MaskSelect(IlocColumn(a.patient_data, 1), [r \in 1..Len(a.patient_data_markers.rows) |-> a.patient_data_markers.rows[r][a.patient_data_markers.columns[j]] >= a.thresh_vec[j]])

\* legacy lines 67-69 and 73-75: the labels, read from the column at
\* position 1, of the rows whose marker j is above its threshold.
LegacyPositive(a, j) ==
    MaskSelect(IlocColumn(a.patient_data, 1), [r \in 1..Len(a.patient_data_markers.rows) |-> a.patient_data_markers.rows[r][a.patient_data_markers.columns[j]] > a.thresh_vec[j]])

\* The legacy call on the inputs of the primary call that has returned, and
\* legacy lines 57-62.
CallLegacyClose ==
    /\ pc = "done"
    /\ op = "compute_close_cell_num"
    /\ args.analysis_type = "channel"
    /\ runs' = <<[runs[1] EXCEPT !.result = ret]>>
    /\ args' = [patient_data |-> Val(args.current_fov_data),
                patient_data_markers |-> Val(args.current_fov_channel_data),
                thresh_vec |-> Val(args.thresh_vec),
                dist_mat |-> args.dist_mat,
                marker_num |-> args.num,
                dist_lim |-> args.dist_lim]
    /\ frame' = [close_num |-> [x \in (1..args.num) \X (1..args.num) |-> 0],
                 marker1_num |-> <<>>, marker2_num |-> <<>>, j |-> 1, k |-> 1]
    /\ op' = "helper_function_closenum"
    /\ ret' = None
    /\ pc' = IF args.num = 0 THEN "legacy_close_return" ELSE "legacy_close_pair"
    /\ UNCHANGED <<raised, fs, npz, np_random, workers>>

\* legacy lines 65-85: one pass of the inner loop, with the head of the
\* outer loop before the first pass of a row
LegacyClosePair ==
    /\ op = "helper_function_closenum" /\ pc = "legacy_close_pair"
    /\ LET marker1poslabels == LegacyPositive(args, frame.j)
           marker2poslabels == LegacyPositive(args, frame.k)
           total == TruncSum(args.dist_mat, marker1poslabels, marker2poslabels, args.dist_lim)
           last == frame.k = args.marker_num
       IN  IF total.raised # ""
           THEN /\ raised' = total.raised
                /\ pc' = "raised"
                /\ frame' = frame
           ELSE /\ frame' = [close_num |-> [frame.close_num EXCEPT ![<<frame.j, frame.k>>] = total.val],
                             marker1_num |-> IF frame.k = 1 THEN Append(frame.marker1_num, Len(marker1poslabels)) ELSE frame.marker1_num,
                             marker2_num |-> Append(frame.marker2_num, Len(marker2poslabels)),
                             j |-> IF last THEN frame.j + 1 ELSE frame.j,
                             k |-> IF last THEN 1 ELSE frame.k + 1]
                /\ raised' = raised
                /\ pc' = IF last /\ frame.j = args.marker_num THEN "legacy_close_return" ELSE "legacy_close_pair"
    /\ UNCHANGED <<op, args, ret, fs, env>>

\* legacy line 86
LegacyCloseReturn ==
    /\ op = "helper_function_closenum" /\ pc = "legacy_close_return"
    /\ ret' = Some(<<frame.close_num, frame.marker1_num, frame.marker2_num>>)
    /\ pc' = "done"
    /\ UNCHANGED <<op, args, frame, raised, fs, env>>

NextLegacyClose ==
    \/ CallCloseFirst
    \/ CloseValidate
    \/ CloseSetup
    \/ CloseSelect
    \/ ClosePerId
    \/ CloseCount
    \/ CloseReturn
    \/ CallLegacyClose
    \/ LegacyClosePair
    \/ LegacyCloseReturn

SpecLegacyClose == Init /\ [][NextLegacyClose]_vars

-----------------------------------------------------------------------------
(* EnrichmentStatistics: calculate_enrichment_stats.                       *)
(* Numbers are kept exactly.  A fraction is <<numerator, denominator>> in  *)
(* lowest terms.  A standard deviation is [sq |-> s, den |-> d], the value *)
(* sqrt(s) / d.  A z score is [kind |-> "finite", num |-> n, den2 |-> s],  *)
(* the value n / sqrt(s), or has kind "inf", "-inf" or "nan" (num and den2 *)
(* are 0 then).  A matrix is a function on (1..M) \X (1..M).               *)

RECURSIVE Gcd(_, _)
Gcd(a, b) == IF b = 0 THEN a ELSE Gcd(b, a % b)

Frac(n, d) == LET g == Gcd(n, d) IN <<n \div g, d \div g>>

FracLess(x, y) == x[1] * y[2] < y[1] * x[2]

RECURSIVE Power(_, _)
Power(x, e) == IF e = 0 THEN 1 ELSE x * Power(x, e - 1)

RECURSIVE SumUpTo(_, _)
SumUpTo(q, n) == IF n = 0 THEN 0 ELSE q[n] + SumUpTo(q, n - 1)

SeqSum(q) == SumUpTo(q, Len(q))

\* close_num_rand[j, k, :] reshaped to a column: the B null samples.
NullSamples(close_num_rand, j, k) ==
    [b \in 1..close_num_rand.shape[3] |-> close_num_rand.values[<<j, k, b>>]]

\* scipy.stats.norm.fit(tmp): the mean and the standard deviation (with
\* divisor B) of the samples.
NormFit(tmp) ==
    LET n == Len(tmp)
        total == SeqSum(tmp)
        squares == SeqSum([i \in 1..n |-> tmp[i] * tmp[i]])
    IN  [muhat |-> Frac(total, n),
         sigmahat |-> [sq |-> n * squares - total * total, den |-> n]]

\* Variant: a zero sigma is replaced by a z score of zero.
FloatDivideGuarded(x, sigma) ==
    IF sigma.sq # 0
    THEN [kind |-> "finite", num |-> x[1] * sigma.den, den2 |-> x[2] * x[2] * sigma.sq]
    ELSE [kind |-> "finite", num |-> 0, den2 |-> 1]

\* x / sigma in floating point, x a fraction: a zero sigma gives inf, -inf
\* or nan (0 / 0) and a warning, never an exception.
FloatDivide(x, sigma) ==
    IF sigma.sq # 0
    THEN [kind |-> "finite", num |-> x[1] * sigma.den, den2 |-> x[2] * x[2] * sigma.sq]
    ELSE IF x[1] > 0 THEN [kind |-> "inf", num |-> 0, den2 |-> 0]
    ELSE IF x[1] < 0 THEN [kind |-> "-inf", num |-> 0, den2 |-> 0]
    ELSE [kind |-> "nan", num |-> 0, den2 |-> 0]

\* Variant: the difference is taken the other way round.
MinusReversed(close, muhat) == Frac(muhat[1] - close * muhat[2], muhat[2])

\* close - muhat, muhat a fraction
Minus(close, muhat) == Frac(close * muhat[2] - muhat[1], muhat[2])

\* z > 0 in floating point: False for nan.
ZGreaterZero(z) ==
    \/ z.kind = "inf"
    \/ z.kind = "finite" /\ z.num > 0

\* Variant: a null sample equal to the observed count is not counted.
PPosStrict(close, tmp) ==
    <<1 + Cardinality({b \in 1..Len(tmp) : tmp[b] > close}), Len(tmp) + 1>>

\* line 324, as <<numerator, B + 1>>
PPos(close, tmp) ==
    <<1 + Cardinality({b \in 1..Len(tmp) : tmp[b] >= close}), Len(tmp) + 1>>

\* Variant: a null sample equal to the observed count is counted too.
PNegAtMost(close, tmp) ==
    <<1 + Cardinality({b \in 1..Len(tmp) : tmp[b] <= close}), Len(tmp) + 1>>

\* line 325, as <<numerator, B + 1>>
PNeg(close, tmp) ==
    <<1 + Cardinality({b \in 1..Len(tmp) : tmp[b] < close}), Len(tmp) + 1>>

\* Variant: the sign of z is not looked at.
SummaryAlwaysPos(z, p_pos, p_neg) == p_pos

\* lines 332-335
Summary(z, p_pos, p_neg) == IF ZGreaterZero(z) THEN p_pos ELSE p_neg

\* np.argsort of a row of fractions with equal denominators: the positions
\* in ascending order of value, equal values in order of position.
ArgSort(row) ==
    LET before(j, i) == row[j][1] < row[i][1] \/ (row[j][1] = row[i][1] /\ j < i)
        rank(i) == 1 + Cardinality({j \in 1..Len(row) : before(j, i)})
    IN  [pos \in 1..Len(row) |-> CHOOSE i \in 1..Len(row) : rank(i) = pos]

\* 1 - (1 - p) ^ e
SidakRaw(p, e) == Frac(Power(p[2], e) - Power(p[2] - p[1], e), Power(p[2], e))

\* p > 1 - (1 - alpha) ^ (1 / e), with alpha = .05
SidakNotReject(p, e) == 20 * Power(p[2] - p[1], e) < 19 * Power(p[2], e)

FracMax(x, y) == IF FracLess(x, y) THEN y ELSE x

RECURSIVE CumMax(_, _, _)
CumMax(raw, r, c) == IF r = 1 THEN raw[<<1, c>>] ELSE FracMax(CumMax(raw, r - 1, c), raw[<<r, c>>])

\* statsmodels multipletests(pvals, alpha=.05), method 'hs', as it computes
\* when pvals is the M x M array the callers hand it:
\*   sortind = np.argsort(pvals)            sorts every row on its own
\*   pvals = np.take(pvals, sortind)        indexes the flattened array
\*   ntests = len(pvals)                    the number of rows
\*   notreject = pvals > 1 - (1 - alpha) ** (1 / arange(ntests, 0, -1))
\*   notreject[min row holding a True:] = True
\*   corrected = maximum.accumulate(1 - (1 - pvals) ** arange(ntests, 0, -1))
\*   out[sortind] = corrected               rows written more than once
\* numpy leaves open which write to a row comes last: rejectFrom and
\* correctedFrom name, for every output row, the row of sortind whose write
\* stays.
MultipleTests(pvals, M, rejectFrom, correctedFrom) ==
    LET sortind == [r \in 1..M |-> ArgSort([c \in 1..M |-> pvals[<<r, c>>]])]
        flat(i) == pvals[<<((i - 1) \div M) + 1, ((i - 1) % M) + 1>>]
        taken == [x \in (1..M) \X (1..M) |-> flat(sortind[x[1]][x[2]])]
        ntests == M
        notreject == [x \in (1..M) \X (1..M) |-> SidakNotReject(taken[x], ntests - x[2] + 1)]
        nr_index == {r \in 1..M : \E c \in 1..M : notreject[<<r, c>>]}
        reject == [x \in (1..M) \X (1..M) |-> \A r \in nr_index : x[1] < r]
        raw == [x \in (1..M) \X (1..M) |-> SidakRaw(taken[x], ntests - x[2] + 1)]
        corrected == [x \in (1..M) \X (1..M) |-> CumMax(raw, x[1], x[2])]
        written(i, r) == CHOOSE c \in 1..M : sortind[r][c] = i
    IN  [reject |-> [x \in (1..M) \X (1..M) |-> reject[<<written(x[1], rejectFrom[x[1]]), x[2]>>]],
         pvals_corrected |-> [x \in (1..M) \X (1..M) |-> corrected[<<written(x[1], correctedFrom[x[1]]), x[2]>>]]]

Pairs(M) == (1..M) \X (1..M)

\* The pair after <<j, k>> in the order of the nested loops, <<>> after the
\* last.
NextPair(M, x) ==
    IF x[2] < M THEN <<x[1], x[2] + 1>>
    ELSE IF x[1] < M THEN <<x[1] + 1, 1>>
    ELSE <<>>

\* lines 302-312: the sizes and the arrays of zeros
StatsSetup ==
    /\ pc = "stats_setup"
    /\ LET M == args.close_num.shape[1]
           zeros == [x \in Pairs(M) |-> 0]
       IN  frame' = [marker_num |-> M,
                     bootstrap_num |-> args.close_num_rand.shape[3],
                     z |-> zeros, muhat |-> zeros, sigmahat |-> zeros,
                     p_pos |-> zeros, p_neg |-> zeros, p_summary |-> zeros,
                     at |-> <<1, 1>>]
    /\ pc' = "stats_pair"
    /\ UNCHANGED <<op, args, ret, raised, fs, env>>

\* lines 315-325: one pass of the loops over j and k
StatsPair ==
    /\ pc = "stats_pair"
    /\ LET x == frame.at
           close == args.close_num.values[x]
           tmp == NullSamples(args.close_num_rand, x[1], x[2])
           fit == NormFit(tmp)
           following == NextPair(frame.marker_num, x)
       IN  /\ frame' = [frame EXCEPT !.muhat[x] = fit.muhat,
                                     !.sigmahat[x] = fit.sigmahat,
                                     !.z[x] = FloatDivide(Minus(close, fit.muhat), fit.sigmahat),
                                     !.p_pos[x] = PPos(close, tmp),
                                     !.p_neg[x] = PNeg(close, tmp),
                                     !.at = following]
           /\ pc' = IF following = <<>> THEN "stats_summary" ELSE "stats_pair"
    /\ UNCHANGED <<op, args, ret, raised, fs, env>>

\* lines 328-335
StatsSummary ==
    /\ pc = "stats_summary"
    /\ frame' = [frame EXCEPT !.p_summary =
                     [x \in Pairs(frame.marker_num) |->
                         Summary(frame.z[x], frame.p_pos[x], frame.p_neg[x])]]
    /\ pc' = "stats_correct"
    /\ UNCHANGED <<op, args, ret, raised, fs, env>>

\* lines 336-346: the correction, the stacked result and the return
StatsReturn ==
    /\ pc = "stats_correct"
    /\ \E rejectFrom \in [1..frame.marker_num -> 1..frame.marker_num] :
       \E correctedFrom \in [1..frame.marker_num -> 1..frame.marker_num] :
          LET mt == MultipleTests(frame.p_summary, frame.marker_num, rejectFrom, correctedFrom)
          IN  ret' = Some([z |-> frame.z, muhat |-> frame.muhat,
                           sigmahat |-> frame.sigmahat,
                           p_pos |-> frame.p_pos, p_neg |-> frame.p_neg,
                           h |-> mt.reject, p_adj |-> mt.pvals_corrected])
    /\ pc' = "done"
    /\ UNCHANGED <<op, args, frame, raised, fs, env>>

\* legacy lines 167-174: the statistics of one pair; p is <<p[j, k, 0],
\* p[j, k, 1]>>.
LegacyPairStats(close, tmp) ==
    LET fit == NormFit(tmp)
        atLeast == Cardinality({b \in 1..Len(tmp) : tmp[b] >= close})
        atMost == Cardinality({b \in 1..Len(tmp) : tmp[b] <= close})
    IN  [muhat |-> fit.muhat,
         sigmahat |-> fit.sigmahat,
         z |-> FloatDivide(Minus(close, fit.muhat), fit.sigmahat),
         p |-> << <<1 + atLeast, Len(tmp) + 1>>, <<1 + atMost, Len(tmp) + 1>> >>]

\* legacy lines 164-174: one pass of the loops over j and k
LegacyStatsPair ==
    /\ pc = "legacy_stats_pair"
    /\ LET x == frame.at
           following == NextPair(frame.marker_num, x)
           stats == LegacyPairStats(args.close_num.values[x], NullSamples(args.close_num_rand, x[1], x[2]))
       IN  /\ frame' = [frame EXCEPT !.muhat[x] = stats.muhat,
                                     !.sigmahat[x] = stats.sigmahat,
                                     !.z[x] = stats.z,
                                     !.p[x] = stats.p,
                                     !.at = following]
           /\ pc' = IF following = <<>> THEN "legacy_stats_summary" ELSE "legacy_stats_pair"
    /\ UNCHANGED <<op, args, ret, raised, fs, env>>

\* legacy lines 177-184
LegacyStatsSummary ==
    /\ pc = "legacy_stats_summary"
    /\ frame' = [frame EXCEPT !.p_summary =
                     [x \in Pairs(frame.marker_num) |->
                         IF ZGreaterZero(frame.z[x]) THEN frame.p[x][1] ELSE frame.p[x][2]]]
    /\ pc' = "legacy_stats_correct"
    /\ UNCHANGED <<op, args, ret, raised, fs, env>>

\* legacy lines 185-188
LegacyStatsReturn ==
    /\ pc = "legacy_stats_correct"
    /\ \E rejectFrom \in [1..frame.marker_num -> 1..frame.marker_num] :
       \E correctedFrom \in [1..frame.marker_num -> 1..frame.marker_num] :
          LET mt == MultipleTests(frame.p_summary, frame.marker_num, rejectFrom, correctedFrom)
          IN  ret' = Some([z |-> frame.z, muhat |-> frame.muhat,
                           sigmahat |-> frame.sigmahat, p |-> frame.p,
                           h |-> mt.reject, adj_p |-> mt.pvals_corrected])
    /\ pc' = "done"
    /\ UNCHANGED <<op, args, frame, raised, fs, env>>

(* Inputs of the statistics.  The null samples of a pair repeat a short    *)
(* ascending pattern up to the number of bootstrap samples.  A one-marker  *)
(* input holds one pair, with as many bootstrap samples as the pattern is  *)
(* long or with TestBootstrap samples.  A two-marker input is symmetric:   *)
(* one observed count and one pattern on the diagonal, one of each off it. *)

Counts == 0..MaxCount

Patterns(n) == {q \in [1..n -> Counts] : \A i \in 1..(n - 1) : q[i] <= q[i + 1]}

Cycle(q, b) == q[((b - 1) % Len(q)) + 1]

StatsInput(M, B, close, pattern) ==
    [close_num |-> [shape |-> <<M, M>>,
                    values |-> [x \in Pairs(M) |-> close[IF x[1] = x[2] THEN 1 ELSE 2]]],
     close_num_rand |-> [shape |-> <<M, M, B>>,
                         values |-> [x \in (1..M) \X (1..M) \X (1..B) |->
                             Cycle(pattern[IF x[1] = x[2] THEN 1 ELSE 2], x[3])]]]

StatsInputs(M, n) ==
    {StatsInput(M, B, close, pattern) : B \in IF M = 1 THEN {n, TestBootstrap} ELSE {n}, close \in [1..M -> Counts], pattern \in [1..M -> Patterns(n)]}

CallStats ==
    /\ pc = "idle"
    /\ \E M \in {1, 2}, n \in 1..MaxBootstrap :
          \E c \in StatsInputs(M, n) : args' = c
    /\ op' = "calculate_enrichment_stats"
    /\ pc' = "stats_setup"
    /\ UNCHANGED <<frame, ret, raised, fs, env>>

\* The call of the legacy function and its lines 155-162: the sizes and the
\* arrays of zeros.
CallLegacyStats ==
    /\ pc = "idle"
    /\ \E M \in {1, 2}, n \in 1..MaxBootstrap :
          \E c \in StatsInputs(M, n) :
             /\ args' = c
             /\ LET zeros == [x \in Pairs(M) |-> 0]
                IN  frame' = [marker_num |-> M,
                              bootstrap_num |-> c.close_num_rand.shape[3],
                              z |-> zeros, muhat |-> zeros, sigmahat |-> zeros,
                              p |-> [x \in Pairs(M) |-> <<0, 0>>],
                              p_summary |-> zeros,
                              at |-> <<1, 1>>]
    /\ op' = "legacy_calculate_enrichment_stats"
    /\ pc' = "legacy_stats_pair"
    /\ UNCHANGED <<ret, raised, fs, env>>

NextStats ==
    \/ CallStats
    \/ StatsSetup
    \/ StatsPair
    \/ StatsSummary
    \/ StatsReturn
    \/ CallLegacyStats
    \/ LegacyStatsPair
    \/ LegacyStatsSummary
    \/ LegacyStatsReturn

SpecStats == Init /\ [][NextStats]_vars

-----------------------------------------------------------------------------
(* NeighborCounter: compute_neighbor_counts, one action per step.  A numpy *)
(* matrix is a function on (1..n) \X (1..m); the phenotypes are kept as    *)
(* the ascending sequence of the values of the phenotype column, which is  *)
(* the column order of pd.get_dummies.  A frequency is a fraction or "nan".*)

\* lines 376-379: dist_matrix.loc[labels, labels].values
NeighborSubset ==
    /\ op = "compute_neighbor_counts" /\ pc = "subset"
    /\ LET labels == Column(args.current_fov_neighborhood_data, args.cell_label_col)
           n == Len(labels)
       IN  IF \E i \in 1..n : IndexOf(args.dist_matrix.coords, labels[i]) = 0
           THEN /\ raised' = "KeyError"
                /\ pc' = "raised"
                /\ frame' = frame
           ELSE /\ frame' = [cell_dist_mat |-> [x \in (1..n) \X (1..n) |-> Loc(args.dist_matrix, labels[x[1]], labels[x[2]])],
                             n |-> n]
                /\ raised' = raised
                /\ pc' = "binarize"
    /\ UNCHANGED <<op, args, ret, fs, env>>

\* line 390: cell_dist_mat_bin[dist_matrix == 0] = 0.  The mask has the
\* shape of the whole distance matrix and is applied by position.
ClearZeroDistance(bin, n, dist_matrix) ==
    IF Len(dist_matrix.coords) # n
    THEN Raise("IndexError: boolean index did not match indexed array along dimension 0")
    ELSE Ok([x \in (1..n) \X (1..n) |-> IF dist_matrix.values[x] = 0 THEN 0 ELSE bin[x]])

\* lines 385-390
NeighborBinarize ==
    /\ op = "compute_neighbor_counts" /\ pc = "binarize"
    /\ LET bin == [x \in (1..frame.n) \X (1..frame.n) |-> IF frame.cell_dist_mat[x] < args.distlim THEN 1 ELSE 0]
           cleared == IF args.self_neighbor THEN Ok(bin) ELSE ClearZeroDistance(bin, frame.n, args.dist_matrix)
       IN  IF cleared.raised # ""
           THEN /\ raised' = cleared.raised
                /\ pc' = "raised"
                /\ frame' = frame
           ELSE /\ frame' = [cell_dist_mat |-> frame.cell_dist_mat, n |-> frame.n, cell_dist_mat_bin |-> cleared.val]
                /\ raised' = raised
                /\ pc' = "count"
    /\ UNCHANGED <<op, args, ret, fs, env>>

\* lines 393-399: the column sums, the 'phenotype has cell?' matrix of the
\* column at position 2, and its product with the binarized matrix.
NeighborCount ==
    /\ op = "compute_neighbor_counts" /\ pc = "count"
    /\ LET n == frame.n
           bin == frame.cell_dist_mat_bin
           pheno == IlocColumn(args.current_fov_neighborhood_data, 2)
           phenos == SortedSeq({pheno[i] : i \in 1..n})
           pheno_has_cell == [x \in (1..Len(phenos)) \X (1..n) |-> IF pheno[x[2]] = phenos[x[1]] THEN 1 ELSE 0]
       IN  frame' = [cell_dist_mat |-> frame.cell_dist_mat, n |-> n, cell_dist_mat_bin |-> bin,
                     phenos |-> phenos,
                     num_neighbors |-> [j \in 1..n |-> SeqSum([i \in 1..n |-> bin[<<i, j>>]])],
                     counts |-> [x \in (1..n) \X (1..Len(phenos)) |->
                                    SeqSum([i \in 1..n |-> pheno_has_cell[<<x[2], i>>] * bin[<<i, x[1]>>]])]]
    /\ pc' = "freqs"
    /\ UNCHANGED <<op, args, ret, raised, fs, env>>

\* lines 402-404: counts.T / num_neighbors, where 0 / 0 is nan
NeighborReturn ==
    /\ op = "compute_neighbor_counts" /\ pc = "freqs"
    /\ LET freqs == [x \in DOMAIN frame.counts |->
                        IF frame.num_neighbors[x[1]] = 0 THEN "nan"
                        ELSE Frac(frame.counts[x], frame.num_neighbors[x[1]])]
       IN  ret' = Some(<<[phenos |-> frame.phenos, values |-> frame.counts],
                         [phenos |-> frame.phenos, values |-> freqs]>>)
    /\ pc' = "done"
    /\ UNCHANGED <<op, args, frame, raised, fs, env>>

\* A FOV in which the first two labels of S have the same centroid (the
\* first label lies on both sides of the second) and the other labels are
\* single pixels further right.
NestedImage(S) ==
    LET c == SortedSeq(S)
        at(col) == IF col \in {0, 2} THEN c[1]
                   ELSE IF col = 1 THEN c[2]
                   ELSE IF \E i \in 3..Len(c) : col = 2 * i THEN c[CHOOSE i \in 3..Len(c) : col = 2 * i]
                   ELSE 0
    IN  [h |-> 1, w |-> 2 * Len(c) + 1, px |-> [p \in {0} \X (0..(2 * Len(c))) |-> at(p[2])]]

NeighborDistMats ==
    DistMats \cup {FovDistMatrix(NestedImage(S)).val : S \in CoordSets}

NeighborCalls(d, l) ==
    {[current_fov_neighborhood_data |-> FovTable(LabelSecondLayout, S, f),
      dist_matrix |-> d, distlim |-> l, self_neighbor |-> b,
      cell_label_col |-> "cellLabelInImage"] :
        S \in SUBSET Labels, f \in [Labels -> ClusterVals], b \in BOOLEAN}

CallNeighbor ==
    /\ pc = "idle"
    /\ \E d \in NeighborDistMats, l \in DistLims :
          \E c \in NeighborCalls(d, l) : args' = c
    /\ op' = "compute_neighbor_counts"
    /\ pc' = "subset"
    /\ UNCHANGED <<frame, ret, raised, fs, env>>

NextNeighbor ==
    \/ CallNeighbor
    \/ NeighborSubset
    \/ NeighborBinarize
    \/ NeighborCount
    \/ NeighborReturn

SpecNeighbor == Init /\ [][NextNeighbor]_vars

-----------------------------------------------------------------------------
(* The context-aware sampler compute_close_cell_num_random_context.  Its   *)
(* definition is absent from spatial_analysis_utils.py (its test is in     *)
(* spatial_analysis_utils_test.py), so it is                               *)
(* modelled from the specification: value-resampling as in                 *)
(* compute_close_cell_num_random, over the objects of the cell types the   *)
(* caller names, after the checks of the two column names and of the       *)
(* eligible cell types.                                                    *)

ErrContextColumn == "ValueError: column not found in current_fov_data"

ErrContextTypes == "ValueError: no eligible cell types"

TableHasColumn(df, name) == \E i \in 1..Len(df.columns) : df.columns[i] = name

\* Variant: every cell type of the FOV is eligible.
EligibleAll(a) ==
    {a.current_fov_data.rows[r][a.cell_lin_col] : r \in 1..Len(a.current_fov_data.rows)}

\* The cell types named by the caller that occur in the FOV.
EligibleTypes(a) ==
    {a.current_fov_data.rows[r][a.cell_lin_col] : r \in 1..Len(a.current_fov_data.rows)} \cap a.cell_types

\* The labels of the objects of an eligible cell type.
EligibleLabels(a) ==
    {a.current_fov_data.rows[r][a.cell_label_col] : r \in {x \in 1..Len(a.current_fov_data.rows) : a.current_fov_data.rows[x][a.cell_lin_col] \in EligibleTypes(a)}}

\* The distance matrix without the rows and columns of the labels not in L.
RestrictTo(d, L) ==
    LET keep == SelectSeq(d.coords, LAMBDA l : l \in L)
    IN  [coords |-> keep,
         values |-> [x \in (1..Len(keep)) \X (1..Len(keep)) |-> Loc(d, keep[x[1]], keep[x[2]])]]

\* The arguments of the value-resampling over the eligible objects.
ContextSamplerArgs(a) ==
    [marker_nums |-> a.marker_nums, dist_mat |-> RestrictTo(a.dist_mat, EligibleLabels(a)),
     dist_lim |-> a.dist_lim, bootstrap_num |-> a.bootstrap_num]

\* The checks of the column names and of the eligible cell types, and the
\* zeroed tensor.
ContextValidate ==
    /\ op = "compute_close_cell_num_random_context" /\ pc = "context_validate"
    /\ IF \/ ~TableHasColumn(args.current_fov_data, args.cell_lin_col)
          \/ ~TableHasColumn(args.current_fov_data, args.cell_label_col)
       THEN /\ raised' = ErrContextColumn
            /\ pc' = "raised"
            /\ frame' = frame
       ELSE IF EligibleTypes(args) = {}
       THEN /\ raised' = ErrContextTypes
            /\ pc' = "raised"
            /\ frame' = frame
       ELSE /\ frame' = RandSetupFrame(ContextSamplerArgs(args))
            /\ raised' = raised
            /\ pc' = "context_pairs"
    /\ UNCHANGED <<op, args, ret, fs, env>>

\* One marker pair: the draws from the binarized distances of the eligible
\* objects.
ContextPair ==
    /\ op = "compute_close_cell_num_random_context" /\ pc = "context_pairs"
    /\ frame.j <= Len(args.marker_nums)
    /\ LET r == RandPairStep(ContextSamplerArgs(args), frame, np_random)
       IN  /\ frame' = r.frame
           /\ np_random' = r.rng
           /\ raised' = r.raised
           /\ pc' = IF r.raised # "" THEN "raised" ELSE pc
    /\ UNCHANGED <<op, args, ret, fs, npz, runs, workers>>

ContextReturn ==
    /\ op = "compute_close_cell_num_random_context" /\ pc = "context_pairs"
    /\ frame.j > Len(args.marker_nums)
    /\ ret' = Some(frame.close_num_rand)
    /\ pc' = "done"
    /\ UNCHANGED <<op, args, frame, raised, fs, env>>

\* The calls of the test: the metadata of the FOV of the distance matrix
\* with every assignment of cell types, the right column names and a wrong
\* one for either column, and every choice of cell types.
ContextColumns ==
    {<<"FlowSOM_ID", "cellLabelInImage">>, <<"bad_cell_lin_col", "cellLabelInImage">>, <<"FlowSOM_ID", "bad_cell_label_col">>}

ContextCalls(d, b) ==
    {[marker_nums |-> <<x, y>>, dist_mat |-> d, dist_lim |-> 2 * DistRes, bootstrap_num |-> b,
      current_fov_data |-> FovTable(LabelSecondLayout, {d.coords[i] : i \in 1..Len(d.coords)}, f),
      cell_lin_col |-> cols[1], cell_label_col |-> cols[2], cell_types |-> types] :
        x \in 0..MaxPositive, y \in 0..MaxPositive, f \in [Labels -> ClusterVals], cols \in ContextColumns, types \in SUBSET ClusterVals}

CallContext ==
    /\ pc = "idle"
    /\ \E d \in DistMats, b \in 1..MaxBootstrap :
          \E c \in ContextCalls(d, b) : args' = c
    /\ op' = "compute_close_cell_num_random_context"
    /\ pc' = "context_validate"
    /\ UNCHANGED <<frame, ret, raised, fs, env>>

NextContext ==
    \/ CallContext
    \/ ContextValidate
    \/ ContextPair
    \/ ContextReturn

SpecContext == Init /\ [][NextContext]_vars

-----------------------------------------------------------------------------
(* Properties.  The definitions below state what the functions are meant   *)
(* to return, from the arguments alone and by column name.                 *)

CloseDone == op = "compute_close_cell_num" /\ pc = "done"

CloseNum == Val(ret)[1]

Mark1Num == Val(ret)[2]

Mark1NumPerId == Val(ret)[3]

\* The labels of the object metadata.
MetaLabels(a) ==
    LET rows == Val(a.current_fov_data).rows
    IN  {rows[r].cellLabelInImage : r \in 1..Len(rows)}

\* Positive set j: the labels of the objects of the j-th cluster id, or of
\* the objects whose expression of the j-th marker exceeds the j-th threshold.
PositiveSet(a, j) ==
    LET rows == Val(a.current_fov_data).rows
    IN  IF a.analysis_type = "cluster"
        THEN {rows[r].cellLabelInImage :
                 r \in {x \in 1..Len(rows) :
                           rows[x].FlowSOM_ID = Val(a.cluster_ids)[j]}}
        ELSE LET chan == Val(a.current_fov_channel_data)
             IN  {rows[r].cellLabelInImage :
                     r \in {x \in 1..Len(rows) :
                               chan.rows[x][chan.columns[j]]
                                   > Val(a.thresh_vec)[j]}}

\* D[x, y], addressed by label.
DistanceOf(d, x, y) ==
    d.values[<<CHOOSE i \in 1..Len(d.coords) : d.coords[i] = x,
               CHOOSE i \in 1..Len(d.coords) : d.coords[i] = y>>]

\* The ordered pairs (x, y) of set j x set k at distance below the threshold.
ClosePairs(a, j, k) ==
    {p \in PositiveSet(a, j) \X PositiveSet(a, k) :
        DistanceOf(a.dist_mat, p[1], p[2]) < a.dist_lim}

SymmetricBounded ==
    CloseDone =>
        \A j, k \in 1..args.num :
            /\ CloseNum[<<j, k>>] = CloseNum[<<k, j>>]
            /\ CloseNum[<<j, k>>] \in Nat
            /\ CloseNum[<<j, k>>] <= Cardinality(PositiveSet(args, j))
                                     * Cardinality(PositiveSet(args, k))

\* Two different sets with an off-diagonal count strictly between the bounds.
SymmetricBoundedWitness ==
    /\ CloseDone
    /\ \E j, k \in 1..args.num :
          /\ j # k
          /\ PositiveSet(args, j) # PositiveSet(args, k)
          /\ CloseNum[<<j, k>>] > 0
          /\ CloseNum[<<j, k>>] < Cardinality(PositiveSet(args, j))
                                  * Cardinality(PositiveSet(args, k))

\* The distance matrix without the rows and columns of the labels not in L.
Restricted(d, L) ==
    LET keep == SelectSeq(d.coords, LAMBDA l : l \in L)
    IN  [coords |-> keep,
         values |-> [p \in (1..Len(keep)) \X (1..Len(keep)) |->
                        DistanceOf(d, keep[p[1]], keep[p[2]])]]

CoordLabels(d) == {d.coords[i] : i \in 1..Len(d.coords)}

MutuallyClose(a, j) ==
    \A x, y \in PositiveSet(a, j) :
        DistanceOf(a.dist_mat, x, y) < a.dist_lim

\* C4: for j = k every object of set j counts as close to itself: with
\* dist_lim > 0 the diagonal count is at least |set_j|, and n mutually close
\* objects give n * n.
SelfPairsCounted ==
    (CloseDone /\ args.dist_lim > 0) =>
        \A j \in 1..args.num :
            LET n == Cardinality(PositiveSet(args, j))
            IN  /\ CloseNum[<<j, j>>] >= n
                /\ MutuallyClose(args, j) => CloseNum[<<j, j>>] = n * n

SelfPairsCountedWitness ==
    /\ CloseDone
    /\ args.dist_lim > 0
    /\ \E j \in 1..args.num :
          /\ Cardinality(PositiveSet(args, j)) >= 2
          /\ MutuallyClose(args, j)
          /\ CloseNum[<<j, j>>] = Cardinality(PositiveSet(args, j))
                                  * Cardinality(PositiveSet(args, j))


\* The labels of the objects whose expression of the marker is above t.
AboveThreshold(a, t) ==
    LET chan == Val(a.current_fov_channel_data)
        labels == Val(a.cell_labels)
    IN  {labels[r] :
            r \in {x \in 1..Len(labels) :
                      chan.rows[x][Val(a.current_marker)] > t}}

SeqRange(q) == {q[i] : i \in 1..Len(q)}

ChannelSelected ==
    /\ op \in {"get_pos_cell_labels_channel", "get_pos_cell_labels"}
    /\ args.analysis_type = "channel"
    /\ pc = "done"

\* C5: threshold-mode selection returns exactly the labels of the objects
\* whose expression is strictly greater than the threshold: an object at the
\* threshold or below it is not returned.
StrictThreshold ==
    ChannelSelected =>
        /\ SeqRange(Val(ret)) = AboveThreshold(args, Val(args.thresh))
        /\ Len(Val(ret)) = Cardinality(AboveThreshold(args, Val(args.thresh)))

\* A selection from a table that holds an object above the threshold, one at
\* the threshold and one below it.
StrictThresholdWitness ==
    /\ ChannelSelected
    /\ Val(ret) # <<>>
    /\ LET expr == Column(Val(args.current_fov_channel_data),
                          Val(args.current_marker))
       IN  /\ \E r \in 1..Len(expr) : expr[r] = Val(args.thresh)
           /\ \E r \in 1..Len(expr) : expr[r] < Val(args.thresh)
           /\ \E r \in 1..Len(expr) : expr[r] > Val(args.thresh)

\* C6: cluster-mode selection returns exactly the labels of the rows whose
\* cluster id is the given one, whatever the column layout of the table.
ClusterLabelsAnyLayout ==
    (op = "get_pos_cell_labels_cluster" /\ pc = "done") =>
        LET rows == Val(args.current_fov_neighborhood_data).rows
        IN  SeqRange(Val(ret)) =
                {rows[r].cellLabelInImage :
                    r \in {x \in 1..Len(rows) :
                              rows[x].FlowSOM_ID = Val(args.pheno)}}

InvalidTypeFailsFirst ==
    /\ (/\ op = "compute_close_cell_num"
        /\ args.analysis_type \notin {"cluster", "channel"}
        /\ pc # "validate")
       => /\ pc = "raised"
          /\ raised = ErrAnalysisType
          /\ frame = EmptyFrame
          /\ ret = None
    /\ (/\ op = "get_pos_cell_labels"
        /\ args.analysis_type \notin {"cluster", "channel"})
       => /\ pc = "raised"
          /\ raised = ErrAnalysisType
          /\ ret = None

InvalidTypeFailsFirstWitness ==
    /\ op = "compute_close_cell_num"
    /\ args.analysis_type = "bad_type"
    /\ pc = "raised"
    /\ raised = ErrAnalysisType
    /\ ~IsNone(args.current_fov_data)
    /\ ~IsNone(args.thresh_vec)

\* A mode-specific input is missing, or the threshold vector does not have
\* one entry per marker.
BadArguments(a) ==
    IF a.analysis_type = "cluster"
    THEN IsNone(a.cluster_ids) \/ IsNone(a.current_fov_data)
    ELSE \/ IsNone(a.thresh_vec)
         \/ IsNone(a.current_fov_channel_data)
         \/ IsNone(a.current_fov_data)
         \/ Len(Val(a.thresh_vec))
                # Len(Val(a.current_fov_channel_data).columns)

\* C9: compute_close_cell_num called with a missing or mismatched
\* mode-specific input ends with the incorrect-arguments error, never with
\* another error and never with a result.
BadArgumentsRejected ==
    (/\ op = "compute_close_cell_num"
     /\ args.analysis_type \in {"cluster", "channel"}
     /\ BadArguments(args)
     /\ pc \in {"done", "raised"})
    => (pc = "raised" /\ raised = ErrArguments)

CalcMatrices ==
    IF op = "calc_dist_matrix" /\ pc \in {"fovs", "done"}
    THEN SeqRange(frame.dist_mats_list)
    ELSE {}

\* C10: every distance matrix built by calc_dist_matrix is symmetric, has a
\* zero diagonal and has no negative entry.
DistMatrixShape ==
    /\ \A m \in CalcMatrices :
          \A i, j \in 1..Len(m.coords) :
              /\ m.values[<<i, j>>] = m.values[<<j, i>>]
              /\ m.values[<<i, i>>] = 0
              /\ m.values[<<i, j>>] >= 0
    /\ (op = "calc_dist_matrix" /\ pc = "done" /\ ~IsNone(ret)) =>
          \A i \in 1..Len(Val(ret)) : Val(ret)[i][2] \in CalcMatrices

\* A returned matrix of three objects, one of them of two pixels, with
\* two different positive distances.
DistMatrixShapeWitness ==
    /\ op = "calc_dist_matrix" /\ pc = "done" /\ ~IsNone(ret)
    /\ \E i \in 1..Len(Val(ret)) :
          LET m == Val(ret)[i][2]
          IN  /\ Len(m.coords) = 3
              /\ Cardinality({m.values[<<1, 2>>], m.values[<<1, 3>>],
                              m.values[<<2, 3>>]} \ {0}) = 2
              /\ Cardinality({p \in DOMAIN args.label_maps[i][2].px :
                                 args.label_maps[i][2].px[p] = m.coords[1]}) = 2

-----------------------------------------------------------------------------
(* Properties of calc_dist_matrix. *)

CalcDone == op = "calc_dist_matrix" /\ pc = "done"

\* The matrices calc_dist_matrix returned, as <<fov id, label map, matrix>>.
ReturnedMatrices ==
    IF CalcDone /\ ~IsNone(ret)
    THEN {<<Val(ret)[i][1], args.label_maps[i][2], Val(ret)[i][2]>> :
             i \in 1..Len(Val(ret))}
    ELSE {}

\* The pixels of label l in a label map.
PixelsOf(image, l) == {p \in DOMAIN image.px : image.px[p] = l}

SquaredDistance(p, q) ==
    (p[1] - q[1]) * (p[1] - q[1]) + (p[2] - q[2]) * (p[2] - q[2])

\* Labels 1, 2, 3 are single pixels that form a 3-4-5 right triangle with
\* the right angle at label 3.
IsTriangle345(image) ==
    /\ \A l \in 1..3 : Cardinality(PixelsOf(image, l)) = 1
    /\ LET at(l) == CHOOSE p \in PixelsOf(image, l) : TRUE
       IN  /\ SquaredDistance(at(1), at(3)) = 9
           /\ SquaredDistance(at(2), at(3)) = 16
           /\ SquaredDistance(at(1), at(2)) = 25

PythagoreanMatrix ==
    [p \in (1..3) \X (1..3) |->
        DistRes * << <<0, 5, 3>>, <<5, 0, 4>>, <<3, 4, 0>> >>[p[1]][p[2]]]

\* C11: for three single-pixel objects 1, 2, 3 whose centroids form a
\* 3-4-5 right triangle, the returned matrix addressed by the labels 1..3
\* is exactly [[0,5,3],[5,0,4],[3,4,0]], in every FOV and wherever the
\* triangle lies in the image.
PythagoreanTriple ==
    \A m \in ReturnedMatrices :
        IsTriangle345(m[2]) =>
            \A x, y \in 1..3 :
                DistanceOf(m[3], x, y) = PythagoreanMatrix[<<x, y>>]

\* Two FOVs hold the triangle at different places and in different
\* orientations, and both matrices were returned.
PythagoreanTripleWitness ==
    /\ CalcDone /\ ~IsNone(ret)
    /\ Len(args.label_maps) = 2
    /\ IsTriangle345(args.label_maps[1][2])
    /\ IsTriangle345(args.label_maps[2][2])
    /\ PixelsOf(args.label_maps[1][2], 3) # PixelsOf(args.label_maps[2][2], 3)
    /\ PixelsOf(args.label_maps[1][2], 1) = {<<0, 3>>}
    /\ PixelsOf(args.label_maps[2][2], 1) = {<<4, 1>>}
    /\ DistanceOf(Val(ret)[2][2], 1, 2) = 5 * DistRes

\* The matrices built so far by the running call, as <<label map, matrix>>.
BuiltMatrices ==
    IF op = "calc_dist_matrix" /\ pc \in {"fovs", "done"}
    THEN {<<args.label_maps[i][2], frame.dist_mats_list[i]>> :
             i \in 1..Len(frame.dist_mats_list)}
    ELSE {}

\* C12: the row and column index of every distance matrix is the set of
\* distinct positive labels of the image, in ascending order: background 0
\* is no index, no absent label is one, and gaps are kept.
IndexIsLabelSet ==
    /\ \A b \in BuiltMatrices :
          LET image == b[1]
              m == b[2]
              n == Len(m.coords)
          IN  /\ {m.coords[i] : i \in 1..n}
                     = {image.px[p] : p \in DOMAIN image.px} \ {0}
              /\ \A i, j \in 1..n : i < j => m.coords[i] < m.coords[j]
              /\ DOMAIN m.values = (1..n) \X (1..n)
    /\ \A m \in ReturnedMatrices : <<m[2], m[3]>> \in BuiltMatrices

\* A returned matrix of an image with background whose labels have a gap,
\* the larger label coming first in raster order.
IndexIsLabelSetWitness ==
    \E m \in ReturnedMatrices :
        /\ m[3].coords = <<1, MaxLabel>>
        /\ m[2].px[<<0, 0>>] = MaxLabel
        /\ m[2].px[<<1, 1>>] = 1
        /\ \E p \in DOMAIN m[2].px : m[2].px[p] = 0

\* The exceptions of Python type ValueError.
IsValueError(e) ==
    e \in {ErrAnalysisType, ErrArguments,
           "ValueError: XA must be a 2-dimensional array."}

\* The call asks for the matrices to be saved under a path that does not exist.
BadSavePath ==
    /\ op = "calc_dist_matrix"
    /\ ~IsNone(args.path)
    /\ ~PathExists({"data_dir"}, Val(args.path))

\* C13: with a save path that does not exist, calc_dist_matrix fails with
\* a ValueError before any distance matrix is computed, and writes no file.
BadPathIsValueError ==
    (BadSavePath /\ pc # "validate") =>
        /\ pc = "raised"
        /\ IsValueError(raised)
        /\ frame = <<>>
        /\ fs = {"data_dir"}
        /\ npz = {}

\* os.path.join(directory, name)
JoinPath(directory, name) ==
    IF directory \in {"data_dir/", "bad_path/"}
    THEN directory \o name
    ELSE directory \o "/" \o name

\* C14: with an existing directory as save path, calc_dist_matrix writes
\* exactly one archive, dist_matrices.npz inside that directory (also when
\* the path has no trailing separator), with one entry per FOV keyed by the
\* FOV id, and returns no value.
ArchiveInsideDirectory ==
    (CalcDone /\ ~IsNone(args.path)) =>
        LET target == JoinPath(Val(args.path), "dist_matrices.npz")
        IN  /\ IsNone(ret)
            /\ fs = {"data_dir", target}
            /\ \E data \in {a.data : a \in npz} :
                  /\ npz = {[path |-> target, data |-> data]}
                  /\ [i \in 1..Len(data) |-> data[i][1]]
                         = [i \in 1..Len(args.label_maps) |->
                               args.label_maps[i][1]]

\* The FOVs of the batch whose image holds no labeled object.
EmptyFovs ==
    IF op = "calc_dist_matrix"
    THEN {i \in 1..Len(args.label_maps) :
             \A p \in DOMAIN args.label_maps[i][2].px :
                 args.label_maps[i][2].px[p] = 0}
    ELSE {}

\* C15: when one FOV of a batch fails (its image holds no object), the
\* other FOVs are still processed and their matrices are returned; the
\* failure of one FOV does not abort the batch.
FovFailureIsolated ==
    (/\ op = "calc_dist_matrix" /\ pc \in {"done", "raised"}
     /\ IsNone(args.path)
     /\ EmptyFovs # {}) =>
        /\ pc = "done"
        /\ {m[1] : m \in ReturnedMatrices}
               = {args.label_maps[i][1] :
                     i \in (1..Len(args.label_maps)) \ EmptyFovs}

-----------------------------------------------------------------------------
(* Properties of the null-distribution samplers. *)

RandDone == op = "compute_close_cell_num_random" /\ pc = "done"

\* The values of the flattened binarized distance matrix of a call.
BinValues(a) ==
    {IF a.dist_mat.values[p] < a.dist_lim THEN 1 ELSE 0 :
        p \in DOMAIN a.dist_mat.values}

\* The sums that n values drawn with replacement from the 0/1 values V
\* can have.
SumsOfDraws(V, n) ==
    {x \in 0..n : /\ (x > 0 => 1 \in V)
                  /\ (x < n => 0 \in V)}

\* C16: the sampler returns an integer tensor of shape (M, M, B) whose
\* entry [j, k, b], j <= k, is a sum of sizes[j] * sizes[k] values drawn
\* from the flattened binarized matrix, hence lies in
\* 0..sizes[j] * sizes[k] and is 0 when either size is 0.
NullCounts ==
    RandDone =>
        LET t == Val(ret)
            m == Len(args.marker_nums)
        IN  /\ t.shape = <<m, m, args.bootstrap_num>>
            /\ DOMAIN t.values
                   = (1..m) \X (1..m) \X (1..args.bootstrap_num)
            /\ \A p \in DOMAIN t.values :
                  p[1] <= p[2] =>
                      LET n == args.marker_nums[p[1]] * args.marker_nums[p[2]]
                      IN  /\ t.values[p] \in SumsOfDraws(BinValues(args), n)
                          /\ t.values[p] \in 0..n
                          /\ (n = 0 => t.values[p] = 0)

\* A returned tensor of sets of unequal sizes with an entry strictly
\* between 0 and the product of the sizes, and two bootstrap draws that
\* differ.
NullCountsWitness ==
    /\ RandDone
    /\ args.marker_nums = <<1, 2>>
    /\ args.bootstrap_num = 2
    /\ Val(ret).values[<<2, 2, 1>>] \in 1..3
    /\ Val(ret).values[<<1, 2, 1>>] # Val(ret).values[<<1, 2, 2>>]

\* C17: the tensor of compute_close_cell_num_random is symmetric in its
\* first two indices, for every bootstrap draw and every outcome of the
\* random draws.
NullSymmetric ==
    RandDone =>
        \A p \in DOMAIN Val(ret).values :
            Val(ret).values[p] = Val(ret).values[<<p[2], p[1], p[3]>>]

\* A returned tensor whose off-diagonal draws are positive and differ from
\* those of the diagonal.
NullSymmetricWitness ==
    /\ RandDone
    /\ Len(args.marker_nums) = 2
    /\ args.bootstrap_num > 0
    /\ Val(ret).values[<<1, 2, 1>>] > 0
    /\ Val(ret).values[<<2, 1, 1>>] = Val(ret).values[<<1, 2, 1>>]
    /\ Val(ret).values[<<1, 2, 1>>] # Val(ret).values[<<1, 1, 1>>]
    /\ Val(ret).values[<<1, 2, 1>>] # Val(ret).values[<<2, 2, 1>>]

LegacyDone == op = "helper_function_closenumrand" /\ pc = "done"

\* C18: the tensor of helper_function_closenumrand is symmetric in its
\* first two indices, for every bootstrap draw and every outcome of the
\* random label draws.
LegacyNullSymmetric ==
    LegacyDone =>
        \A p \in DOMAIN Val(ret).values :
            Val(ret).values[p] = Val(ret).values[<<p[2], p[1], p[3]>>]

\* C19: two runs of the sampler with the same sizes, distance matrix,
\* threshold, bootstrap count and seed return identical tensors, whatever
\* was drawn by other code before or between the runs.
SeededRunsAgree ==
    \A x, y \in 1..Len(runs) :
        (/\ runs[x].args = runs[y].args
         /\ runs[x].seed = runs[y].seed
         /\ ~IsNone(runs[x].seed)) =>
            runs[x].result = runs[y].result

\* The tensor a call returns when it runs alone from the locals fr with
\* the generator in state g.
RECURSIVE RunAloneFrom(_, _, _)
RunAloneFrom(a, fr, g) ==
    IF fr.j > Len(a.marker_nums) THEN fr.close_num_rand
    ELSE LET r == RandPairStep(a, fr, g)
         IN  IF r.raised # "" THEN fr.close_num_rand
             ELSE RunAloneFrom(a, r.frame, r.rng)

RunAlone(a, g) == RunAloneFrom(a, RandSetupFrame(a), g)

\* C20: under every interleaving of two workers, each FOV's tensor is the
\* one the FOV gets when it runs alone from the same generator state.
ParallelMatchesAlone ==
    (pc = "done" /\ workers # <<>>) =>
        \A w \in WorkerIds :
            Val(ret)[w] = RunAlone(workers[w].args, workers[w].start)

StatsDone == pc = "done" /\ op = "calculate_enrichment_stats"

LegacyStatsDone == pc = "done" /\ op = "legacy_calculate_enrichment_stats"

StatsPairs == Pairs(args.close_num.shape[1])

BootstrapNum == args.close_num_rand.shape[3]

Observed(x) == args.close_num.values[x]

\* The positions of the null samples of pair x that satisfy Test.
NullWhere(x, Test(_, _)) ==
    {b \in 1..BootstrapNum : Test(args.close_num_rand.values[<<x[1], x[2], b>>], Observed(x))}

AtLeast(a, b) == a >= b

Below(a, b) == a < b

Above(a, b) == a > b

Same(a, b) == a = b

\* The fractions x and y are the same number.
FracEq(x, y) == x[1] * y[2] = y[1] * x[2]

\* C22: for every pair, p_pos is (1 + the number of null samples at or
\* above the observed count) / (B + 1) and p_neg is (1 + the number of
\* null samples below it) / (B + 1), so that a null sample equal to the
\* observed count counts for p_pos only.
PValueFormulas ==
    StatsDone =>
        \A x \in StatsPairs :
            /\ FracEq(Val(ret).p_pos[x], <<1 + Cardinality(NullWhere(x, AtLeast)), BootstrapNum + 1>>)
            /\ FracEq(Val(ret).p_neg[x], <<1 + Cardinality(NullWhere(x, Below)), BootstrapNum + 1>>)

PValueFormulasWitness ==
    /\ StatsDone
    /\ \E x \in StatsPairs :
          /\ NullWhere(x, Same) # {}
          /\ NullWhere(x, Below) # {}

NullTotal(x) == SeqSum(NullSamples(args.close_num_rand, x[1], x[2]))

NullSquares(x) == SeqSum([b \in 1..BootstrapNum |-> args.close_num_rand.values[<<x[1], x[2], b>>] * args.close_num_rand.values[<<x[1], x[2], b>>]])

\* B * B times the variance of the null samples of pair x.
NullSpread(x) == BootstrapNum * NullSquares(x) - NullTotal(x) * NullTotal(x)

\* B times (the observed count minus the mean of the null samples).
Excess(x) == Observed(x) * BootstrapNum - NullTotal(x)

AllNullEqual(x) == \A b \in 1..BootstrapNum : args.close_num_rand.values[<<x[1], x[2], b>>] = args.close_num_rand.values[<<x[1], x[2], 1>>]

\* z is the finite number (observed - mean) / standard deviation.
UsualZ(x, z) ==
    /\ z.kind = "finite"
    /\ (z.num > 0) = (Excess(x) > 0)
    /\ (z.num < 0) = (Excess(x) < 0)
    /\ Frac(z.num * z.num, z.den2) = Frac(Excess(x) * Excess(x), NullSpread(x))

UsualFit(x, muhat, sigmahat) ==
    /\ FracEq(muhat, <<NullTotal(x), BootstrapNum>>)
    /\ sigmahat.sq * BootstrapNum * BootstrapNum = NullSpread(x) * sigmahat.den * sigmahat.den

UsualPValues(x, p_pos, p_neg) ==
    /\ FracEq(p_pos, <<1 + Cardinality(NullWhere(x, AtLeast)), BootstrapNum + 1>>)
    /\ FracEq(p_neg, <<1 + Cardinality(NullWhere(x, Below)), BootstrapNum + 1>>)

\* C23: a pair whose null samples are all equal does not make the function
\* raise; the call returns, the z score of that pair is +inf, -inf or NaN,
\* its p values follow the usual formulas, and so do all statistics of the
\* pairs whose null samples differ.
ZeroSigmaTolerated ==
    /\ op = "calculate_enrichment_stats" => raised = ""
    /\ StatsDone =>
          \A x \in StatsPairs :
              /\ UsualFit(x, Val(ret).muhat[x], Val(ret).sigmahat[x])
              /\ UsualPValues(x, Val(ret).p_pos[x], Val(ret).p_neg[x])
              /\ AllNullEqual(x) => Val(ret).z[x].kind \in {"inf", "-inf", "nan"}
              /\ ~AllNullEqual(x) => UsualZ(x, Val(ret).z[x])

ZeroSigmaToleratedWitness ==
    /\ StatsDone
    /\ \E x, y \in StatsPairs :
          /\ AllNullEqual(x)
          /\ Val(ret).z[x].kind = "nan"
          /\ ~AllNullEqual(y)
          /\ Excess(y) # 0

\* C24: a pair whose null samples are all below the observed count gets
\* z > 0 and, with the TestBootstrap samples of the tests, p_pos < 0.05; a
\* pair whose null samples are all above the observed count gets z < 0
\* and, with that many samples, p_neg < 0.05.
DirectionConsistent ==
    StatsDone =>
        \A x \in StatsPairs :
            /\ NullWhere(x, AtLeast) = {} =>
                  /\ ZGreaterZero(Val(ret).z[x])
                  /\ BootstrapNum = TestBootstrap => 20 * Val(ret).p_pos[x][1] < Val(ret).p_pos[x][2]
            /\ NullWhere(x, Above) = 1..BootstrapNum =>
                  /\ Val(ret).z[x].kind = "-inf" \/ (Val(ret).z[x].kind = "finite" /\ Val(ret).z[x].num < 0)
                  /\ BootstrapNum = TestBootstrap => 20 * Val(ret).p_neg[x][1] < Val(ret).p_neg[x][2]

DirectionConsistentWitness ==
    /\ StatsDone
    /\ BootstrapNum = TestBootstrap
    /\ \E x \in StatsPairs :
          /\ NullWhere(x, AtLeast) = {}
          /\ ~AllNullEqual(x)

\* C27: the p value handed to the correction is p_pos for the pairs with
\* z > 0 and p_neg for all others: z zero, negative, -inf or NaN.
SummarySelection ==
    pc \in {"stats_correct", "done"} /\ op = "calculate_enrichment_stats" =>
        \A x \in StatsPairs :
            LET positive == frame.z[x].kind = "inf" \/ (frame.z[x].kind = "finite" /\ frame.z[x].num > 0)
            IN  frame.p_summary[x] = IF positive THEN frame.p_pos[x] ELSE frame.p_neg[x]

SummarySelectionWitness ==
    /\ pc = "stats_correct"
    /\ op = "calculate_enrichment_stats"
    /\ \E x, y \in StatsPairs :
          /\ frame.z[x].kind = "nan"
          /\ frame.p_pos[x] # frame.p_neg[x]
          /\ frame.z[y].kind = "finite"
          /\ frame.z[y].num = 0

NullOf(x) == NullSamples(args.close_num_rand, x[1], x[2])

\* C29: on the same input the legacy and the primary function report the
\* same muhat, sigmahat, z and p_pos for every pair; the legacy p_neg is
\* the primary p_neg plus (the number of null samples equal to the
\* observed count) / (B + 1), so the two agree exactly on the pairs
\* without such a sample.
LegacyStatsAgree ==
    /\ StatsDone =>
          \A x \in StatsPairs :
              LET legacy == LegacyPairStats(Observed(x), NullOf(x))
              IN  /\ Val(ret).muhat[x] = legacy.muhat
                  /\ Val(ret).sigmahat[x] = legacy.sigmahat
                  /\ Val(ret).z[x] = legacy.z
                  /\ FracEq(Val(ret).p_pos[x], legacy.p[1])
                  /\ legacy.p[2][2] = Val(ret).p_neg[x][2]
                  /\ legacy.p[2][1] = Val(ret).p_neg[x][1] + Cardinality(NullWhere(x, Same))
    /\ LegacyStatsDone =>
          \A x \in StatsPairs :
              LET fit == NormFit(NullOf(x))
                  p_neg == PNeg(Observed(x), NullOf(x))
              IN  /\ Val(ret).muhat[x] = fit.muhat
                  /\ Val(ret).sigmahat[x] = fit.sigmahat
                  /\ Val(ret).z[x] = FloatDivide(Minus(Observed(x), fit.muhat), fit.sigmahat)
                  /\ FracEq(Val(ret).p[x][1], PPos(Observed(x), NullOf(x)))
                  /\ Val(ret).p[x][2][2] = p_neg[2]
                  /\ Val(ret).p[x][2][1] = p_neg[1] + Cardinality(NullWhere(x, Same))
                  /\ FracEq(Val(ret).p[x][2], p_neg) <=> NullWhere(x, Same) = {}

LegacyStatsAgreeWitness ==
    /\ LegacyStatsDone
    /\ \E x, y \in StatsPairs :
          /\ NullWhere(x, Same) # {}
          /\ NullWhere(x, Same) # 1..BootstrapNum
          /\ NullWhere(y, Same) = {}
          /\ Val(ret).z[y].kind = "finite"

\* The Holm-Sidak step-down procedure at alpha = .05 over the n fractions
\* of pvals (equal denominators), as one family: entry i of the result is
\* the flag and the adjusted value of pvals[i].
StepDown(pvals) ==
    LET n == Len(pvals)
        order == ArgSort(pvals)
        holds(i) == SidakNotReject(pvals[order[i]], n - i + 1)
        value(i) == SidakRaw(pvals[order[i]], n - i + 1)
        largest(i) == CHOOSE v \in {value(m) : m \in 1..i} : \A m \in 1..i : ~FracLess(v, value(m))
        place(t) == CHOOSE i \in 1..n : order[i] = t
    IN  [t \in 1..n |-> [reject |-> \A i \in 1..place(t) : ~holds(i),
                         adjusted |-> largest(place(t))]]

\* C25: the flag and the adjusted p value returned for a pair are those the
\* step-down procedure over all M * M entries of p_summary, taken as one
\* family, gives to the entry of that pair.
OneFamilyCorrection ==
    (StatsDone \/ LegacyStatsDone) =>
        LET M == frame.marker_num
            flat == [i \in 1..(M * M) |-> frame.p_summary[<<((i - 1) \div M) + 1, ((i - 1) % M) + 1>>]]
            family == StepDown(flat)
            h == Val(ret).h
            adj_p == IF StatsDone THEN Val(ret).p_adj ELSE Val(ret).adj_p
        IN  \A x \in Pairs(M) :
                /\ h[x] = family[(x[1] - 1) * M + x[2]].reject
                /\ FracEq(adj_p[x], family[(x[1] - 1) * M + x[2]].adjusted)

\* C26: a second call of compute_close_cell_num with the same distance
\* matrix, metadata and threshold returns the count matrix and the
\* positive-set sizes of the first call, and the arguments are, at every
\* step of both calls, what the caller handed to the first call.
RecomputeIdentical ==
    runs # <<>> /\ op = "compute_close_cell_num" =>
        /\ args = runs[1].args
        /\ (pc = "done" /\ ~IsNone(runs[1].result)) => ret = runs[1].result

RecomputeIdenticalWitness ==
    /\ runs # <<>>
    /\ op = "compute_close_cell_num"
    /\ pc = "done"
    /\ ~IsNone(runs[1].result)
    /\ \E j, k \in 1..args.num : j # k /\ Val(ret)[1][<<j, k>>] > 0 /\ Val(ret)[1][<<j, k>>] < Val(ret)[1][<<j, j>>]

NeighborLabels == Column(args.current_fov_neighborhood_data, args.cell_label_col)

NeighborPhenos == Column(args.current_fov_neighborhood_data, "FlowSOM_ID")

\* Row j of the metadata is a cell of phenotype p that row i counts: its
\* distance to the cell of row i is below distlim, and it is another row
\* unless a cell counts itself.
CountedFor(i, j, p) ==
    /\ NeighborPhenos[j] = p
    /\ Loc(args.dist_matrix, NeighborLabels[i], NeighborLabels[j]) < args.distlim
    /\ args.self_neighbor \/ j # i

NeighborsOf(i, p) == {j \in 1..Len(NeighborLabels) : CountedFor(i, j, p)}

AllNeighborsOf(i) == {j \in 1..Len(NeighborLabels) : CountedFor(i, j, NeighborPhenos[j])}

\* C28: for a positive distlim and labels that are all in the distance
\* matrix, the call returns; the count of cell i for phenotype p is the
\* number of cells of phenotype p at distance < distlim, cell i included,
\* and with self_neighbor = False the same number without cell i itself,
\* so that another cell at distance 0 is still counted; the frequency is
\* the count over the cell's total, NaN when the total is 0.
NeighborsExcludeOnlySelf ==
    (/\ op = "compute_neighbor_counts"
     /\ args.distlim > 0
     /\ \A i \in 1..Len(NeighborLabels) : IndexOf(args.dist_matrix.coords, NeighborLabels[i]) # 0) =>
        /\ raised = ""
        /\ pc = "done" =>
              LET counts == Val(ret)[1]
                  freqs == Val(ret)[2]
              IN  \A i \in 1..Len(NeighborLabels), t \in 1..Len(counts.phenos) :
                      /\ counts.values[<<i, t>>] = Cardinality(NeighborsOf(i, counts.phenos[t]))
                      /\ freqs.values[<<i, t>>] =
                            IF AllNeighborsOf(i) = {} THEN "nan"
                            ELSE Frac(Cardinality(NeighborsOf(i, counts.phenos[t])), Cardinality(AllNeighborsOf(i)))

LegacyCloseDone == pc = "done" /\ op = "helper_function_closenum"

\* The distance matrix holds label i at row and column i - 1 (0-based),
\* and the legacy function finds the labels in the column it reads.
LabelsArePositions ==
    /\ args.dist_mat.coords = [i \in 1..Len(args.dist_mat.coords) |-> i]
    /\ args.patient_data.columns[2] = "cellLabelInImage"

ContextCall == op = "compute_close_cell_num_random_context"

\* A column name of the call is not a column of the metadata, or none of
\* the objects has one of the cell types the caller names.
ContextInvalid ==
    \/ \A i \in 1..Len(args.current_fov_data.columns) : args.current_fov_data.columns[i] # args.cell_label_col
    \/ \A i \in 1..Len(args.current_fov_data.columns) : args.current_fov_data.columns[i] # args.cell_lin_col
    \/ \A r \in 1..Len(args.current_fov_data.rows) : args.current_fov_data.rows[r][args.cell_lin_col] \notin args.cell_types

=============================================================================
